---- MODULE Spec2Model ----
(***************************************************************************)
(* Model of the dguard-audit-bot core: the route extractor                 *)
(* (BackendAnalyzer), the call-site extractor (FrontendAnalyzer), their    *)
(* path/URL normalizers, and the two validators that reconcile endpoints   *)
(* with call sites (EndpointValidator, SecurityValidator).                 *)
(*                                                                         *)
(* JavaScript strings are modelled as sequences of one-character strings,  *)
(* so that every regular expression and string method of the source is     *)
(* computed character by character.                                        *)
(***************************************************************************)
EXTENDS Integers, Sequences, FiniteSets, TLC

VARIABLES
    \* ---- AuditBot pipeline ----
    phase,        \* position of AuditBot.run()
    rules,        \* config.rules handed to the validators
    endpoints,    \* BackendAnalyzer.endpoints : Map key -> endpoint
    apiCalls,     \* FrontendAnalyzer.apiCalls : Map key -> call[]
    issues,       \* AuditBot.results.issues
    routeCursor,  \* index of the last route declaration visited
    callCursor,   \* index of the last call expression visited
    nRoutes,      \* route declarations extracted in this run
    nCalls,       \* call expressions extracted in this run
    \* ---- normalizer harness ----
    node,         \* the AST node of a URL argument
    nb,           \* successive results of BackendAnalyzer.normalizePath
    nf,           \* successive results of FrontendAnalyzer.cleanEndpoint
    \* ---- CacheManager ----
    now,          \* Date.now(), in ticks
    cfg,          \* the options of the CacheManager: ttl and maxAge
    memoryCache,  \* this.memoryCache : key -> value and expiry time
    disk,         \* the files of the cache directory : key -> file
    writing,      \* the file write in progress, if any
    lastSet,      \* per key, the last completed set not yet invalidated
    lastOp,       \* the last operation that returned, and its result
    \* ---- ComponentValidator ----
    componentPhase,          \* position of the component validation
    designSystemComponents,  \* DesignSystemAnalyzer.components
    frontendComponents,      \* FrontendAnalyzer.components
    componentIssues,         \* the issues returned by ComponentValidator.validate
    \* ---- FrontendAnalyzer.analyzeSourceFiles over a project tree ----
    folders,      \* projectConfig.folders of the frontend project
    tree,         \* the source files that exist in the frontend project
    files,        \* FrontendAnalyzer.files : the files analysed, in order
    \* ---- a run started from the CLI or through AuditBot.run() ----
    startedBy,    \* how the run was started: the CLI or AuditBot.run()
    runOptions,   \* options: noBackend, noFrontend, noDesignSystem
    exists,       \* which configured root directories exist
    runPhase,     \* position of the run
    results,      \* AuditBot.results : the analyses and the issue types
    validated,    \* the validators that have run
    \* ---- BackendAnalyzer.detectBasePath ----
    content,      \* what the patterns of detectBasePath find in a route file
    detected      \* the value detectBasePath returned

pipeVars == <<phase, rules, endpoints, apiCalls, issues, routeCursor, callCursor, nRoutes, nCalls>>
normVars == <<node, nb, nf>>
cacheVars == <<now, cfg, memoryCache, disk, writing, lastSet, lastOp>>
componentVars == <<componentPhase, designSystemComponents, frontendComponents, componentIssues>>
sourceVars == <<folders, tree, files>>
runVars == <<startedBy, runOptions, exists, runPhase, results, validated>>
baseVars == <<content, detected>>
vars == <<phase, rules, endpoints, apiCalls, issues, routeCursor, callCursor, nRoutes, nCalls, node, nb, nf,
          now, cfg, memoryCache, disk, writing, lastSet, lastOp,
          componentPhase, designSystemComponents, frontendComponents, componentIssues,
         folders, tree, files, startedBy, runOptions, exists, runPhase, results, validated, content, detected>>

(***************************************************************************)
(* Bounds of the model.                                                    *)
(***************************************************************************)
MaxPieces == 3
MaxApply == 2
MaxRoutes == 3
MaxCalls == 3
MaxTime == 4

(***************************************************************************)
(* String primitives (methods of String) over sequences of characters.     *)
(***************************************************************************)
NULL == <<"<null>">>

startsWith(s, p) == Len(s) >= Len(p) /\ SubSeq(s, 1, Len(p)) = p

endsWith(s, p) == Len(s) >= Len(p) /\ SubSeq(s, Len(s) - Len(p) + 1, Len(s)) = p

includes(s, p) == \E i \in 1..(Len(s) - Len(p) + 1) : SubSeq(s, i, i + Len(p) - 1) = p

\* index of the first occurrence of character c at or after position i, 0 if none
firstAt(s, c, i) ==
    IF \E j \in i..Len(s) : s[j] = c
    THEN CHOOSE j \in i..Len(s) : s[j] = c /\ \A k \in i..(j - 1) : s[k] # c
    ELSE 0

UpperChars == <<"A","B","C","D","E","F","G","H","I","J","K","L","M","N","O","P","Q","R","S","T","U","V","W","X","Y","Z">>
LowerChars == <<"a","b","c","d","e","f","g","h","i","j","k","l","m","n","o","p","q","r","s","t","u","v","w","x","y","z">>

lowerChar(c) ==
    IF \E i \in 1..Len(UpperChars) : UpperChars[i] = c
    THEN LowerChars[CHOOSE i \in 1..Len(UpperChars) : UpperChars[i] = c]
    ELSE c

upperChar(c) ==
    IF \E i \in 1..Len(LowerChars) : LowerChars[i] = c
    THEN UpperChars[CHOOSE i \in 1..Len(LowerChars) : LowerChars[i] = c]
    ELSE c

toLowerCase(s) == [i \in 1..Len(s) |-> lowerChar(s[i])]

toUpperCase(s) == [i \in 1..Len(s) |-> upperChar(s[i])]

RECURSIVE join(_, _)
join(parts, sep) ==
    IF parts = <<>> THEN <<>>
    ELSE IF Len(parts) = 1 THEN parts[1]
    ELSE parts[1] \o sep \o join(Tail(parts), sep)

(***************************************************************************)
(* BackendAnalyzer.normalizePath                                           *)
(***************************************************************************)
\* path.replace(/\/+/g, '/')
RECURSIVE collapseSlashes(_)
collapseSlashes(s) ==
    IF s = <<>> THEN <<>>
    ELSE IF Len(s) >= 2 /\ s[1] = "/" /\ s[2] = "/" THEN collapseSlashes(Tail(s))
    ELSE <<s[1]>> \o collapseSlashes(Tail(s))

\* A faulty variant of normalizePath that keeps repeated slashes; the
\* idempotence property must tell it apart from normalizePath.
normalizePathKeepingRepeats(path) ==
    LET rooted == IF startsWith(path, <<"/">>) THEN path ELSE <<"/">> \o path
    IN  IF Len(rooted) > 1 /\ endsWith(rooted, <<"/">>)
        THEN SubSeq(rooted, 1, Len(rooted) - 1)
        ELSE rooted

normalizePath(path) ==
    LET collapsed == collapseSlashes(path)
        rooted == IF startsWith(collapsed, <<"/">>) THEN collapsed ELSE <<"/">> \o collapsed
    IN  IF Len(rooted) > 1 /\ endsWith(rooted, <<"/">>)
        THEN SubSeq(rooted, 1, Len(rooted) - 1)
        ELSE rooted

(***************************************************************************)
(* FrontendAnalyzer.cleanEndpoint                                          *)
(***************************************************************************)
\* endpoint.replace(/^https?:\/\/[^\/]+/, '')
stripProtocolAndHost(s) ==
    LET k == IF startsWith(s, <<"h","t","t","p","s",":","/","/">>) THEN 8
             ELSE IF startsWith(s, <<"h","t","t","p",":","/","/">>) THEN 7
             ELSE 0
    IN  IF k > 0 /\ Len(s) > k /\ s[k + 1] # "/"
        THEN LET slash == firstAt(s, "/", k + 1)
             IN  IF slash = 0 THEN <<>> ELSE SubSeq(s, slash, Len(s))
        ELSE s

\* endpoint.split('?')[0]
beforeQuery(s) ==
    LET q == firstAt(s, "?", 1)
    IN  IF q = 0 THEN s ELSE SubSeq(s, 1, q - 1)

\* endpoint.replace(/\$\{[^}]+\}/g, ':param')
RECURSIVE replaceInterpolations(_)
replaceInterpolations(s) ==
    IF s = <<>> THEN <<>>
    ELSE LET close == firstAt(s, "}", 4)
         IN  IF Len(s) >= 4 /\ s[1] = "$" /\ s[2] = "{" /\ s[3] # "}" /\ close # 0
             THEN <<":","p","a","r","a","m">> \o replaceInterpolations(SubSeq(s, close + 1, Len(s)))
             ELSE <<s[1]>> \o replaceInterpolations(Tail(s))

cleanEndpoint(endpoint) ==
    IF endpoint = NULL \/ endpoint = <<>> THEN <<>>
    ELSE LET e == replaceInterpolations(beforeQuery(stripProtocolAndHost(endpoint)))
         IN  IF startsWith(e, <<"/">>) THEN e ELSE <<"/">> \o e

(***************************************************************************)
(* astUtils.extractStringValue                                             *)
(* A node is [type, value] (StringLiteral), [type, quasis] (a              *)
(* TemplateLiteral with Len(quasis) - 1 expressions) or another node type. *)
(***************************************************************************)
extractStringValue(n) ==
    IF n.type = "undefined" THEN NULL
    ELSE IF n.type = "StringLiteral" THEN n.value
    ELSE IF n.type = "TemplateLiteral"
         THEN IF Len(n.quasis) = 1
              THEN (IF n.quasis[1] = <<>> THEN NULL ELSE n.quasis[1])
              ELSE join(n.quasis, <<"$","{",".",".",".","}">>)
    ELSE NULL

(***************************************************************************)
(* Source text of URL arguments: a literal is a run of pieces; the piece   *)
(* INTERP is an interpolated expression ${id}.                             *)
(***************************************************************************)
INTERP == <<"$","{","i","d","}">>

Pieces == {
    <<"/">>,
    <<"a","p","i">>,
    <<"4","2">>,
    <<"?","q">>,
    <<"h","t","t","p",":","/","/","h">>,
    <<"h","t","t","p","s",":","/","/","h",":","8">>,
    <<"$">>, <<"{">>, <<"}">>,
    INTERP }

PieceSeqs == UNION {[1..n -> Pieces] : n \in 0..MaxPieces}

RECURSIVE concat(_)
concat(ps) == IF ps = <<>> THEN <<>> ELSE ps[1] \o concat(Tail(ps))

\* the quasis of a template literal written as the pieces ps
RECURSIVE quasisOf(_, _)
quasisOf(ps, cur) ==
    IF ps = <<>> THEN <<cur>>
    ELSE IF ps[1] = INTERP THEN <<cur>> \o quasisOf(Tail(ps), <<>>)
    ELSE quasisOf(Tail(ps), cur \o ps[1])

StringLiteral(ps) == [type |-> "StringLiteral", value |-> concat(ps)]
TemplateLiteral(ps) == [type |-> "TemplateLiteral", quasis |-> quasisOf(ps, <<>>)]
Identifier == [type |-> "Identifier"]
\* an argument that is not passed
Undefined == [type |-> "undefined"]

(***************************************************************************)
(* JavaScript Map: insertion-ordered entries [key, value]; set() on a key  *)
(* already present replaces the value in place.                            *)
(***************************************************************************)
mapHas(m, k) == \E i \in 1..Len(m) : m[i].key = k

mapIndex(m, k) == CHOOSE i \in 1..Len(m) : m[i].key = k

mapSet(m, k, v) ==
    IF mapHas(m, k)
    THEN [m EXCEPT ![mapIndex(m, k)] = [key |-> k, value |-> v]]
    ELSE Append(m, [key |-> k, value |-> v])

mapKeys(m) == {m[i].key : i \in 1..Len(m)}

(***************************************************************************)
(* AST nodes of arguments.  Names and literal values are strings; an       *)
(* argument that is not passed is Undefined.                               *)
(***************************************************************************)
Ident(name) == [type |-> "Identifier", name |-> name]
Member(object, property) == [type |-> "MemberExpression", object |-> object, property |-> property]
Call(callee) == [type |-> "CallExpression", callee |-> callee]
Array(elements) == [type |-> "ArrayExpression", elements |-> elements]
Object(properties) == [type |-> "ObjectExpression", properties |-> properties]
Prop(key, value) == [type |-> "ObjectProperty", key |-> key, value |-> value]
Str(value) == [type |-> "StringLiteral", value |-> value]
ArrowFunction == [type |-> "ArrowFunctionExpression"]

argument(args, i) == IF i <= Len(args) THEN args[i] ELSE Undefined

(***************************************************************************)
(* BackendAnalyzer: route extraction                                       *)
(***************************************************************************)
\* the regular expressions of detectAuthRequirement, all case-insensitive
AuthPatterns == <<
    <<"a","u","t","h">>,
    <<"j","w","t">>,
    <<"v","e","r","i","f","y">>,
    <<"p","r","o","t","e","c","t">>,
    <<"a","u","t","h","e","n","t","i","c","a","t","e">>,
    <<"a","u","t","h","o","r","i","z","e">>,
    <<"g","u","a","r","d">>,
    <<"s","e","c","u","r","e">> >>

detectAuthRequirement(middleware) ==
    \E i \in 1..Len(middleware) : \E p \in 1..Len(AuthPatterns) :
        includes(toLowerCase(middleware[i]), AuthPatterns[p])

\* the name pushed for one argument of a route registration
memberName(n) == n.object \o <<".">> \o n.property

calleeName(callee) ==
    IF callee.type = "Identifier" THEN callee.name
    ELSE IF callee.type = "MemberExpression" THEN memberName(callee)
    ELSE <<"u","n","k","n","o","w","n">>

RECURSIVE identifierNames(_)
identifierNames(elements) ==
    IF elements = <<>> THEN <<>>
    ELSE (IF elements[1].type = "Identifier" THEN <<elements[1].name>> ELSE <<>>)
         \o identifierNames(Tail(elements))

RECURSIVE middlewareFrom(_, _)
middlewareFrom(args, i) ==
    IF i > Len(args) THEN <<>>
    ELSE LET arg == args[i]
             here == IF arg.type = "Identifier"
                     THEN (IF i = Len(args) THEN <<>> ELSE <<arg.name>>)
                     ELSE IF arg.type = "MemberExpression"
                     THEN (IF i = Len(args) THEN <<>> ELSE <<memberName(arg)>>)
                     ELSE IF arg.type = "CallExpression" THEN <<calleeName(arg.callee)>>
                     ELSE IF arg.type = "ArrayExpression" THEN identifierNames(arg.elements)
                     ELSE <<>>
         IN  here \o middlewareFrom(args, i + 1)

controllerFrom(args) ==
    IF Len(args) < 2 THEN NULL
    ELSE LET arg == args[Len(args)]
         IN  IF arg.type = "Identifier" THEN arg.name
             ELSE IF arg.type = "MemberExpression" THEN memberName(arg)
             ELSE NULL

extractMiddlewareAndController(args) ==
    [middleware |-> middlewareFrom(args, 2), controller |-> controllerFrom(args)]

\* the matches of /:([^/]+)/g (stops = {"/"}) or /:([^/?]+)/g (stops = {"/", "?"})
RECURSIVE paramMatches(_, _)
paramMatches(s, stops) ==
    IF s = <<>> THEN <<>>
    ELSE IF s[1] = ":" /\ Len(s) >= 2 /\ s[2] \notin stops
    THEN LET end == IF \E j \in 2..Len(s) : s[j] \in stops
                    THEN CHOOSE j \in 2..Len(s) : s[j] \in stops /\ \A k \in 2..(j - 1) : s[k] \notin stops
                    ELSE Len(s) + 1
         IN  <<SubSeq(s, 2, end - 1)>> \o paramMatches(SubSeq(s, end, Len(s)), stops)
    ELSE paramMatches(Tail(s), stops)

\* A faulty variant of extractPathParams that keeps the colon of each match.
extractPathParamsKeepingColon(path) ==
    LET matches == paramMatches(path, {"/"})
    IN  [i \in 1..Len(matches) |-> <<":">> \o matches[i]]

\* BackendAnalyzer.extractPathParams
extractPathParams(path) == paramMatches(path, {"/"})

RouterObjects == { <<"r","o","u","t","e","r">>, <<"a","p","p">>, <<"e","x","p","r","e","s","s">> }

RouteVerbs == {
    <<"g","e","t">>, <<"p","o","s","t">>, <<"p","u","t">>, <<"p","a","t","c","h">>,
    <<"d","e","l","e","t","e">>, <<"o","p","t","i","o","n","s">>, <<"h","e","a","d">> }

NoEndpoint == [null |-> TRUE]

\* node: a call expression [callee, arguments, line] of the file `file`
extractEndpointFromCall(n, basePath, file) ==
    IF /\ n.callee.type = "MemberExpression"
       /\ n.callee.object \in RouterObjects
       /\ n.callee.property \in RouteVerbs
    THEN LET routePath == extractStringValue(argument(n.arguments, 1))
             fullPath == normalizePath(basePath \o routePath)
             mc == extractMiddlewareAndController(n.arguments)
         IN  IF routePath = NULL \/ routePath = <<>> THEN NoEndpoint
             ELSE [ method |-> toUpperCase(n.callee.property),
                    path |-> fullPath,
                    originalPath |-> routePath,
                    basePath |-> basePath,
                    file |-> file,
                    line |-> n.line,
                    middleware |-> mc.middleware,
                    controller |-> mc.controller,
                    requiresAuth |-> detectAuthRequirement(mc.middleware),
                    params |-> extractPathParams(fullPath),
                    queryParams |-> <<>>,
                    expectedBody |-> <<>>,
                    used |-> FALSE ]
    ELSE NoEndpoint

endpointKey(e) == e.method \o <<" ">> \o e.path

(***************************************************************************)
(* astUtils.extractObjectStructure                                         *)
(* A structure is a Map of property name -> value; a value is              *)
(* [t, v, truthy]: t the typeof/kind, v the characters of a string or the  *)
(* entries of a nested object (the indices of an array), truthy its        *)
(* truthiness.                                                             *)
(***************************************************************************)
UndefinedValue == [t |-> "undefined", v |-> <<>>, truthy |-> FALSE]
StringValue(s) == [t |-> "string", v |-> s, truthy |-> s # <<>>]
ObjectValue(entries) == [t |-> "object", v |-> entries, truthy |-> TRUE]
ArrayValue(n) == [t |-> "array", v |-> [i \in 1..n |-> <<>>], truthy |-> TRUE]

\* `<${prop.value.type}>` for the node types of the model
typeName(type) ==
    IF type = "TemplateLiteral" THEN <<"T","e","m","p","l","a","t","e","L","i","t","e","r","a","l">>
    ELSE IF type = "CallExpression" THEN <<"C","a","l","l","E","x","p","r","e","s","s","i","o","n">>
    ELSE IF type = "MemberExpression" THEN <<"M","e","m","b","e","r","E","x","p","r","e","s","s","i","o","n">>
    ELSE <<"A","r","r","o","w","F","u","n","c","t","i","o","n","E","x","p","r","e","s","s","i","o","n">>

RECURSIVE extractObjectStructure(_)
RECURSIVE structureFrom(_, _)
structureFrom(properties, structure) ==
    IF properties = <<>> THEN structure
    ELSE LET prop == properties[1]
             val == prop.value
             value == IF val.type = "ObjectExpression" THEN ObjectValue(extractObjectStructure(val))
                      ELSE IF val.type = "ArrayExpression" THEN ArrayValue(Len(val.elements))
                      ELSE IF val.type = "StringLiteral" THEN StringValue(val.value)
                      ELSE IF val.type = "NumericLiteral"
                           THEN [t |-> "number", v |-> <<>>, truthy |-> val.value # 0]
                      ELSE IF val.type = "BooleanLiteral"
                           THEN [t |-> "boolean", v |-> <<>>, truthy |-> val.value]
                      ELSE IF val.type = "Identifier" THEN StringValue(<<"<">> \o val.name \o <<">">>)
                      ELSE StringValue(<<"<">> \o typeName(val.type) \o <<">">>)
         IN  IF prop.type = "ObjectProperty" /\ prop.key # <<>>
             THEN structureFrom(Tail(properties), mapSet(structure, prop.key, value))
             ELSE structureFrom(Tail(properties), structure)

extractObjectStructure(n) ==
    IF n.type # "ObjectExpression" THEN <<>>
    ELSE structureFrom(n.properties, <<>>)

\* structure[name]
property(structure, name) ==
    IF mapHas(structure, name) THEN structure[mapIndex(structure, name)].value ELSE UndefinedValue

Digits == <<"0","1","2","3","4","5","6","7","8","9">>

RECURSIVE indexString(_)
indexString(i) ==
    IF i < 10 THEN <<Digits[i + 1]>>
    ELSE indexString(i \div 10) \o <<Digits[(i % 10) + 1]>>

\* Object.keys(value)
objectKeys(value) ==
    IF value.t = "object" THEN [i \in 1..Len(value.v) |-> value.v[i].key]
    ELSE IF value.t \in {"string", "array"} THEN [i \in 1..Len(value.v) |-> indexString(i - 1)]
    ELSE <<>>

\* value.hasOwnProperty(name), for the names the validators ask about
hasOwnProperty(value, name) ==
    \/ \E i \in 1..Len(objectKeys(value)) : objectKeys(value)[i] = name
    \/ value.t \in {"string", "array"} /\ name = <<"l","e","n","g","t","h">>

(***************************************************************************)
(* FrontendAnalyzer: call-site extraction                                  *)
(***************************************************************************)
HttpVerbs == {
    <<"g","e","t">>, <<"p","o","s","t">>, <<"p","u","t">>, <<"p","a","t","c","h">>,
    <<"d","e","l","e","t","e">>, <<"h","e","a","d">>, <<"o","p","t","i","o","n","s">> }

ApiObjects == {
    <<"a","p","i">>, <<"A","P","I">>, <<"c","l","i","e","n","t">>,
    <<"h","t","t","p","C","l","i","e","n","t">> }

NoCall == [null |-> TRUE]

\* n: a call expression [callee, arguments, file, line]; callee is an
\* Identifier [type, name] or a MemberExpression [type, object, property]
detectAPICall(n) ==
    LET c == n.callee
        base == [file |-> n.file, line |-> n.line, method |-> NULL, serviceName |-> NULL,
                 urlArg |-> Undefined, dataArg |-> Undefined, configArg |-> Undefined,
                 optionsArg |-> Undefined, args |-> <<>>]
    IN  IF c.type = "Identifier" /\ c.name = <<"f","e","t","c","h">>
        THEN [base EXCEPT !.urlArg = argument(n.arguments, 1),
                          !.optionsArg = argument(n.arguments, 2)] @@ [type |-> "fetch"]
        ELSE IF c.type = "MemberExpression" /\ c.object = <<"a","x","i","o","s">> /\ c.property \in HttpVerbs
        THEN [base EXCEPT !.method = toUpperCase(c.property),
                          !.urlArg = argument(n.arguments, 1),
                          !.dataArg = argument(n.arguments, 2),
                          !.configArg = argument(n.arguments, 3)] @@ [type |-> "axios"]
        ELSE IF c.type = "MemberExpression" /\ c.object \in ApiObjects /\ c.property \in HttpVerbs
        THEN [base EXCEPT !.method = toUpperCase(c.property),
                          !.urlArg = argument(n.arguments, 1),
                          !.dataArg = argument(n.arguments, 2),
                          !.configArg = argument(n.arguments, 3)] @@ [type |-> "api"]
        ELSE IF \/ c.type = "Identifier" /\ c.name = <<"r","e","q","u","e","s","t">>
                \/ c.type = "MemberExpression" /\ c.property = <<"r","e","q","u","e","s","t">>
        THEN [base EXCEPT !.configArg = argument(n.arguments, 1)] @@ [type |-> "request"]
        ELSE IF /\ c.type = "MemberExpression"
                /\ c.object # <<>>
                /\ \/ includes(toLowerCase(c.object), <<"a","p","i">>)
                   \/ includes(toLowerCase(c.object), <<"s","e","r","v","i","c","e">>)
                   \/ includes(toLowerCase(c.object), <<"c","l","i","e","n","t">>)
        THEN [base EXCEPT !.serviceName = c.object,
                          !.method = c.property,
                          !.args = n.arguments] @@ [type |-> "service"]
        ELSE NoCall

AuthHeaders == <<
    <<"a","u","t","h","o","r","i","z","a","t","i","o","n">>,
    <<"A","u","t","h","o","r","i","z","a","t","i","o","n">>,
    <<"a","u","t","h">>,
    <<"t","o","k","e","n">>,
    <<"x","-","a","u","t","h","-","t","o","k","e","n">>,
    <<"b","e","a","r","e","r">> >>

checkAuthInHeaders(headers) ==
    /\ headers.t \in {"object", "array"}
    /\ \E i \in 1..Len(AuthHeaders) : hasOwnProperty(headers, AuthHeaders[i])

MethodMapping == <<
    [key |-> <<"g","e","t">>, value |-> <<"G","E","T">>],
    [key |-> <<"f","e","t","c","h">>, value |-> <<"G","E","T">>],
    [key |-> <<"f","i","n","d">>, value |-> <<"G","E","T">>],
    [key |-> <<"l","i","s","t">>, value |-> <<"G","E","T">>],
    [key |-> <<"c","r","e","a","t","e">>, value |-> <<"P","O","S","T">>],
    [key |-> <<"a","d","d">>, value |-> <<"P","O","S","T">>],
    [key |-> <<"s","a","v","e">>, value |-> <<"P","O","S","T">>],
    [key |-> <<"u","p","d","a","t","e">>, value |-> <<"P","U","T">>],
    [key |-> <<"e","d","i","t">>, value |-> <<"P","U","T">>],
    [key |-> <<"p","a","t","c","h">>, value |-> <<"P","A","T","C","H">>],
    [key |-> <<"d","e","l","e","t","e">>, value |-> <<"D","E","L","E","T","E">>],
    [key |-> <<"r","e","m","o","v","e">>, value |-> <<"D","E","L","E","T","E">>],
    [key |-> <<"d","e","s","t","r","o","y">>, value |-> <<"D","E","L","E","T","E">>] >>

inferMethodFromServiceCall(methodName) ==
    LET lowerMethod == toLowerCase(methodName)
        found == {i \in 1..Len(MethodMapping) : includes(lowerMethod, MethodMapping[i].key)}
    IN  IF mapHas(MethodMapping, lowerMethod)
        THEN MethodMapping[mapIndex(MethodMapping, lowerMethod)].value
        ELSE IF found # {}
        THEN MethodMapping[CHOOSE i \in found : \A j \in found : i <= j].key
        ELSE <<"P","O","S","T">>

extractURLParams(url) == paramMatches(url, {"/", "?"})

\* s.split(sep), sep one character
RECURSIVE split(_, _)
split(s, sep) ==
    LET i == firstAt(s, sep, 1)
    IN  IF i = 0 THEN <<s>>
        ELSE <<SubSeq(s, 1, i - 1)>> \o split(SubSeq(s, i + 1, Len(s)), sep)

RECURSIVE queryKeys(_)
queryKeys(params) ==
    IF params = <<>> THEN <<>>
    ELSE LET key == split(params[1], "=")[1]
         IN  (IF key # <<>> THEN <<key>> ELSE <<>>) \o queryKeys(Tail(params))

extractQueryParams(url) ==
    LET queryIndex == firstAt(url, "?", 1)
    IN  IF queryIndex = 0 THEN <<>>
        ELSE queryKeys(split(SubSeq(url, queryIndex + 1, Len(url)), "&"))

\* call: the result of detectAPICall
normalizeAPICall(call) ==
    LET options == extractObjectStructure(call.optionsArg)
        config == extractObjectStructure(call.configArg)
        isHttp == call.type \in {"axios", "api"}
        endpoint == IF call.type = "fetch" \/ isHttp THEN extractStringValue(call.urlArg)
                    ELSE IF call.type = "service"
                    THEN <<"/">> \o call.serviceName \o <<"/">> \o call.method
                    ELSE NULL
        method == IF call.type = "fetch"
                  THEN (IF call.optionsArg.type # "undefined" /\ property(options, <<"m","e","t","h","o","d">>).truthy
                        THEN (IF property(options, <<"m","e","t","h","o","d">>).t = "string"
                              THEN toUpperCase(property(options, <<"m","e","t","h","o","d">>).v)
                              ELSE <<"G","E","T">>)
                        ELSE <<"G","E","T">>)
                  ELSE IF call.type = "service" THEN inferMethodFromServiceCall(call.method)
                  ELSE IF call.method = NULL THEN <<"G","E","T">>
                  ELSE call.method
        data == IF call.type = "fetch"
                THEN (IF call.optionsArg.type # "undefined" /\ property(options, <<"b","o","d","y">>).truthy
                      THEN property(options, <<"b","o","d","y">>)
                      ELSE ObjectValue(<<>>))
                ELSE IF isHttp
                THEN (IF call.dataArg.type # "undefined"
                      THEN ObjectValue(extractObjectStructure(call.dataArg))
                      ELSE ObjectValue(<<>>))
                ELSE IF call.type = "service" /\ Len(call.args) > 0
                THEN ObjectValue(extractObjectStructure(call.args[1]))
                ELSE ObjectValue(<<>>)
        headers == IF call.type = "fetch" THEN property(options, <<"h","e","a","d","e","r","s">>)
                   ELSE property(config, <<"h","e","a","d","e","r","s">>)
        hasAuth == /\ \/ call.type = "fetch" /\ call.optionsArg.type # "undefined"
                      \/ isHttp /\ call.configArg.type # "undefined"
                   /\ headers.truthy
                   /\ checkAuthInHeaders(headers)
    IN  IF endpoint = NULL \/ endpoint = <<>> THEN NoCall
        ELSE [ method |-> method,
               endpoint |-> cleanEndpoint(endpoint),
               originalUrl |-> extractStringValue(call.urlArg),
               file |-> call.file,
               line |-> call.line,
               type |-> call.type,
               data |-> data,
               hasAuth |-> hasAuth,
               params |-> extractURLParams(cleanEndpoint(endpoint)),
               queryParams |-> extractQueryParams(cleanEndpoint(endpoint)) ]

callKey(c) == c.method \o <<" ">> \o c.endpoint

(***************************************************************************)
(* config.rules.  A pattern of requireAuthPatterns is a case-insensitive   *)
(* RegExp with a literal source, or a string; severity maps some of the    *)
(* severity names; security is absent from the default configuration.      *)
(***************************************************************************)
RegExpI(source) == [kind |-> "RegExp", source |-> source]
StringPattern(s) == [kind |-> "string", source |-> s]

DefaultRules == [
    requireAuthPatterns |-> <<
        RegExpI(<<"d","e","l","e","t","e">>),
        RegExpI(<<"a","d","m","i","n">>),
        RegExpI(<<"c","r","e","a","t","e">>) >>,
    severity |-> [ missingEndpoint |-> "CRITICAL", missingAuth |-> "HIGH", missingParam |-> "HIGH",
                   missingBodyField |-> "MEDIUM", unusedEndpoint |-> "LOW" ],
    security |-> [ defined |-> FALSE, sensitiveMethods |-> <<>>, publicEndpoints |-> <<>> ] ]

\* a configuration that sets rules.security and only part of rules.severity
CustomRules == [
    requireAuthPatterns |-> << StringPattern(<<"O","r","d","e","r","s">>) >>,
    severity |-> [ unusedEndpoint |-> "MEDIUM" ],
    security |-> [ defined |-> TRUE,
                   sensitiveMethods |-> << <<"D","E","L","E","T","E">>, <<"G","E","T">> >>,
                   publicEndpoints |-> << <<"G","E","T"," ","/","a","p","i","/","i","t","e","m","s">>,
                                          <<"P","O","S","T"," ","/","a","p","i","/","o","*">> >> ] ]

\* this.rules.severity[name] || fallback
severityOf(r, name, fallback) ==
    IF name \in DOMAIN r.severity THEN r.severity[name] ELSE fallback

Issue(type, severity, endpoint) ==
    [ type |-> type, severity |-> severity, endpoint |-> endpoint,
      frontend |-> NULL, backend |-> NULL, line |-> 0, param |-> NULL, field |-> NULL ]

(***************************************************************************)
(* EndpointValidator                                                       *)
(***************************************************************************)
contains(seq, x) == \E i \in 1..Len(seq) : seq[i] = x

\* the issues pushed for the elements of seq that satisfy Bad, in order
issuesFor(seq, Bad(_), Make(_)) ==
    LET selected == SelectSeq(seq, Bad)
    IN  [i \in 1..Len(selected) |-> Make(selected[i])]

validateURLParams(r, endpoint, call) ==
    LET key == endpoint.method \o <<" ">> \o endpoint.path
        Missing(param) == ~contains(call.params, param) /\ ~includes(call.endpoint, <<":">> \o param)
        MakeMissing(param) ==
            [Issue("MISSING_URL_PARAM", severityOf(r, "missingParam", "HIGH"), key)
                EXCEPT !.frontend = call.file, !.backend = endpoint.file, !.param = param]
        Extra(param) == ~contains(endpoint.params, param)
        MakeExtra(param) ==
            [Issue("EXTRA_URL_PARAM", "LOW", key) EXCEPT !.frontend = call.file, !.param = param]
    IN  issuesFor(endpoint.params, Missing, MakeMissing) \o issuesFor(call.params, Extra, MakeExtra)

\* endpoint.expectedBody is a Map field -> [required]
validateRequestBody(r, endpoint, call) ==
    LET key == endpoint.method \o <<" ">> \o endpoint.path
        expected == [i \in 1..Len(endpoint.expectedBody) |-> endpoint.expectedBody[i].key]
        Missing(field) ==
            /\ endpoint.expectedBody[mapIndex(endpoint.expectedBody, field)].value.required
            /\ ~hasOwnProperty(call.data, field)
        MakeMissing(field) ==
            [Issue("MISSING_BODY_FIELD", severityOf(r, "missingBodyField", "MEDIUM"), key)
                EXCEPT !.frontend = call.file, !.backend = endpoint.file, !.field = field]
        Extra(field) == ~mapHas(endpoint.expectedBody, field)
        MakeExtra(field) ==
            [Issue("EXTRA_BODY_FIELD", "LOW", key) EXCEPT !.frontend = call.file, !.field = field]
    IN  IF ~call.data.truthy \/ Len(objectKeys(call.data)) = 0 THEN <<>>
        ELSE issuesFor(expected, Missing, MakeMissing)
             \o issuesFor(objectKeys(call.data), Extra, MakeExtra)

validateQueryParams(r, endpoint, call) ==
    LET key == endpoint.method \o <<" ">> \o endpoint.path
        Missing(param) == ~contains(call.queryParams, param)
        MakeMissing(param) ==
            [Issue("MISSING_QUERY_PARAM", "LOW", key)
                EXCEPT !.frontend = call.file, !.backend = endpoint.file, !.param = param]
    IN  issuesFor(endpoint.queryParams, Missing, MakeMissing)

validateEndpointUsage(r, endpoint, call) ==
    validateURLParams(r, endpoint, call)
    \o validateRequestBody(r, endpoint, call)
    \o validateQueryParams(r, endpoint, call)

missingEndpointIssue(r, key, call) ==
    [Issue("MISSING_BACKEND_ENDPOINT", severityOf(r, "missingEndpoint", "CRITICAL"), key)
        EXCEPT !.frontend = call.file, !.line = call.line]

\* Faulty variants of the callback below: the first reports a missing key
\* once per key instead of once per call site, the second forgets to mark
\* the endpoint as used.
validateCallOncePerKey(r, key, call, acc) ==
    IF ~mapHas(acc.endpoints, key)
    THEN IF \E i \in 1..Len(acc.issues) :
               acc.issues[i].type = "MISSING_BACKEND_ENDPOINT" /\ acc.issues[i].endpoint = key
         THEN acc
         ELSE [acc EXCEPT !.issues = Append(@, missingEndpointIssue(r, key, call))]
    ELSE LET i == mapIndex(acc.endpoints, key)
             endpoint == acc.endpoints[i].value
         IN  [ endpoints |-> [acc.endpoints EXCEPT ![i].value.used = TRUE],
               issues |-> acc.issues \o validateEndpointUsage(r, endpoint, call) ]

validateCallWithoutMarking(r, key, call, acc) ==
    IF ~mapHas(acc.endpoints, key)
    THEN [acc EXCEPT !.issues = Append(@, missingEndpointIssue(r, key, call))]
    ELSE LET i == mapIndex(acc.endpoints, key)
             endpoint == acc.endpoints[i].value
         IN  [ endpoints |-> acc.endpoints,
               issues |-> acc.issues \o validateEndpointUsage(r, endpoint, call) ]

\* the callback of calls.forEach in validate, for one call of the key:
\* acc = [endpoints, issues]
validateCall(r, key, call, acc) ==
    IF ~mapHas(acc.endpoints, key)
    THEN [acc EXCEPT !.issues = Append(@, missingEndpointIssue(r, key, call))]
    ELSE LET i == mapIndex(acc.endpoints, key)
             endpoint == acc.endpoints[i].value
         IN  [ endpoints |-> [acc.endpoints EXCEPT ![i].value.used = TRUE],
               issues |-> acc.issues \o validateEndpointUsage(r, endpoint, call) ]

RECURSIVE validateCalls(_, _, _, _)
validateCalls(r, key, calls, acc) ==
    IF calls = <<>> THEN acc
    ELSE validateCalls(r, key, Tail(calls), validateCall(r, key, calls[1], acc))

RECURSIVE validateKeys(_, _, _)
validateKeys(r, entries, acc) ==
    IF entries = <<>> THEN acc
    ELSE validateKeys(r, Tail(entries), validateCalls(r, entries[1].key, entries[1].value, acc))

unusedEndpointIssue(r, entry) ==
    [Issue("UNUSED_ENDPOINT", severityOf(r, "unusedEndpoint", "LOW"), entry.key)
        EXCEPT !.backend = entry.value.file, !.line = entry.value.line]

\* EndpointValidator.validate: the returned issues and the endpoints Map as
\* the call leaves it
validateEndpoints(r, backendEndpoints, frontendAPICalls) ==
    LET matched == validateKeys(r, frontendAPICalls, [endpoints |-> backendEndpoints, issues |-> <<>>])
        Unused(entry) == ~entry.value.used
        MakeUnused(entry) == unusedEndpointIssue(r, entry)
    IN  [ endpoints |-> matched.endpoints,
          issues |-> matched.issues \o issuesFor(matched.endpoints, Unused, MakeUnused) ]

(***************************************************************************)
(* SecurityValidator                                                       *)
(***************************************************************************)
SensitiveKeywords == <<
    <<"a","d","m","i","n">>, <<"d","e","l","e","t","e">>, <<"r","e","m","o","v","e">>,
    <<"d","e","s","t","r","o","y">>, <<"c","r","e","a","t","e">>, <<"a","d","d">>,
    <<"u","p","d","a","t","e">>, <<"e","d","i","t">>, <<"m","o","d","i","f","y">>,
    <<"p","a","s","s","w","o","r","d">>, <<"a","u","t","h">>, <<"l","o","g","i","n">>,
    <<"r","e","g","i","s","t","e","r">>, <<"u","s","e","r">>, <<"p","r","o","f","i","l","e">>,
    <<"s","e","t","t","i","n","g","s">>, <<"c","o","n","f","i","g">>, <<"u","p","l","o","a","d">>,
    <<"f","i","l","e">> >>

matchesPattern(key, pattern) == includes(toLowerCase(key), toLowerCase(pattern.source))

isSensitiveEndpoint(r, key) ==
    \/ \E i \in 1..Len(r.requireAuthPatterns) : matchesPattern(key, r.requireAuthPatterns[i])
    \/ \E i \in 1..Len(SensitiveKeywords) : includes(toLowerCase(key), SensitiveKeywords[i])

GetPrefix == <<"G","E","T"," ">>

StaticExtensions == { <<".","c","s","s">>, <<".","j","s">>, <<".","p","n","g">>,
                      <<".","j","p","g">>, <<".","g","i","f">>, <<".","i","c","o">> }

isExemptFromAuth(key) ==
    \/ endsWith(key, <<"/","h","e","a","l","t","h">>)
    \/ endsWith(key, <<"/","s","t","a","t","u","s">>)
    \/ endsWith(key, <<"/","v","e","r","s","i","o","n">>)
    \/ endsWith(key, <<"/","p","i","n","g">>)
    \/ includes(key, <<"/","p","u","b","l","i","c","/">>)
    \/ includes(key, <<"/","s","t","a","t","i","c","/">>)
    \/ includes(key, <<"/","a","s","s","e","t","s","/">>)
    \/ key = <<"G","E","T"," ","/">>
    \/ \E ext \in StaticExtensions :
          startsWith(key, GetPrefix) /\ endsWith(key, ext) /\ Len(key) >= Len(GetPrefix) + Len(ext)
    \/ endsWith(key, <<"/","a","u","t","h","/","l","o","g","i","n">>)
    \/ endsWith(key, <<"/","a","u","t","h","/","r","e","g","i","s","t","e","r">>)
    \/ endsWith(key, <<"/","a","u","t","h","/","f","o","r","g","o","t","-","p","a","s","s","w","o","r","d">>)
    \/ endsWith(key, <<"/","a","u","t","h","/","r","e","s","e","t","-","p","a","s","s","w","o","r","d">>)

validateAuthenticationRequirements(r, backendEndpoints) ==
    LET Bad(entry) == isSensitiveEndpoint(r, entry.key) /\ ~entry.value.requiresAuth
        Make(entry) ==
            [Issue("SENSITIVE_ENDPOINT_NO_AUTH", severityOf(r, "sensitiveEndpointNoAuth", "CRITICAL"), entry.key)
                EXCEPT !.backend = entry.value.file, !.line = entry.value.line]
    IN  issuesFor(backendEndpoints, Bad, Make)

\* A faulty variant of the callback below that does not look at hasAuth.
authIssuesOfKeyForEveryCall(r, backendEndpoints, entry) ==
    LET key == entry.key
        Bad(call) == TRUE
        Make(call) ==
            [Issue("MISSING_AUTH_HEADER", severityOf(r, "missingAuth", "HIGH"), key)
                EXCEPT !.frontend = call.file,
                       !.backend = backendEndpoints[mapIndex(backendEndpoints, key)].value.file,
                       !.line = call.line]
    IN  IF mapHas(backendEndpoints, key)
           /\ backendEndpoints[mapIndex(backendEndpoints, key)].value.requiresAuth
        THEN issuesFor(entry.value, Bad, Make)
        ELSE <<>>

\* the callback of frontendAPICalls.forEach: the calls of one key
authIssuesOfKey(r, backendEndpoints, entry) ==
    LET key == entry.key
        Bad(call) == ~call.hasAuth
        Make(call) ==
            [Issue("MISSING_AUTH_HEADER", severityOf(r, "missingAuth", "HIGH"), key)
                EXCEPT !.frontend = call.file,
                       !.backend = backendEndpoints[mapIndex(backendEndpoints, key)].value.file,
                       !.line = call.line]
    IN  IF mapHas(backendEndpoints, key)
           /\ backendEndpoints[mapIndex(backendEndpoints, key)].value.requiresAuth
        THEN issuesFor(entry.value, Bad, Make)
        ELSE <<>>

RECURSIVE authIssuesOfKeys(_, _, _)
authIssuesOfKeys(r, backendEndpoints, entries) ==
    IF entries = <<>> THEN <<>>
    ELSE authIssuesOfKey(r, backendEndpoints, entries[1])
         \o authIssuesOfKeys(r, backendEndpoints, Tail(entries))

validateFrontendAuthentication(r, backendEndpoints, frontendAPICalls) ==
    authIssuesOfKeys(r, backendEndpoints, frontendAPICalls)

isPublicEndpoint(key, publicPatterns) ==
    \E i \in 1..Len(publicPatterns) :
        LET pattern == publicPatterns[i]
        IN  IF endsWith(pattern, <<"*">>)
            THEN startsWith(key, SubSeq(pattern, 1, Len(pattern) - 1))
            ELSE key = pattern

validatePublicEndpoints(r, backendEndpoints) ==
    LET publicPatterns == IF r.security.defined THEN r.security.publicEndpoints ELSE <<>>
        Bad(entry) == isPublicEndpoint(entry.key, publicPatterns) /\ entry.value.requiresAuth
        Make(entry) ==
            [Issue("PUBLIC_ENDPOINT_HAS_AUTH", "MEDIUM", entry.key) EXCEPT !.backend = entry.value.file]
    IN  issuesFor(backendEndpoints, Bad, Make)

DefaultSensitiveMethods == <<
    <<"P","O","S","T">>, <<"P","U","T">>, <<"P","A","T","C","H">>, <<"D","E","L","E","T","E">> >>

sensitiveMethodsOf(r) ==
    IF r.security.defined THEN r.security.sensitiveMethods ELSE DefaultSensitiveMethods

\* A faulty variant of validateSensitiveMethods that skips the exemption list.
validateSensitiveMethodsWithoutExemption(r, backendEndpoints) ==
    LET Bad(entry) ==
            /\ contains(sensitiveMethodsOf(r), entry.value.method)
            /\ ~entry.value.requiresAuth
        Make(entry) ==
            [Issue("SENSITIVE_METHOD_NO_AUTH", "HIGH", entry.key)
                EXCEPT !.backend = entry.value.file, !.line = entry.value.line]
    IN  issuesFor(backendEndpoints, Bad, Make)

\* SecurityValidator.validateSensitiveMethods
validateSensitiveMethods(r, backendEndpoints) ==
    LET Bad(entry) ==
            /\ contains(sensitiveMethodsOf(r), entry.value.method)
            /\ ~entry.value.requiresAuth
            /\ ~isExemptFromAuth(entry.key)
        Make(entry) ==
            [Issue("SENSITIVE_METHOD_NO_AUTH", "HIGH", entry.key)
                EXCEPT !.backend = entry.value.file, !.line = entry.value.line]
    IN  issuesFor(backendEndpoints, Bad, Make)

\* SecurityValidator.validate
validateSecurity(r, backendEndpoints, frontendAPICalls) ==
    validateAuthenticationRequirements(r, backendEndpoints)
    \o validateFrontendAuthentication(r, backendEndpoints, frontendAPICalls)
    \o validatePublicEndpoints(r, backendEndpoints)
    \o validateSensitiveMethods(r, backendEndpoints)

(***************************************************************************)
(* The source trees under analysis.  A backend file is [file, basePath,    *)
(* calls]: basePath is the mount prefix detected for the file (each file   *)
(* here mounts its router with an explicit use('/prefix', ...)), calls     *)
(* its call expressions in source order.  A frontend file is [file,        *)
(* calls].  A call expression is [callee, arguments, line].                *)
(***************************************************************************)
CallExpr(callee, arguments, line) == [callee |-> callee, arguments |-> arguments, line |-> line]

RouterGet == Member(<<"r","o","u","t","e","r">>, <<"g","e","t">>)
RouterPost == Member(<<"r","o","u","t","e","r">>, <<"p","o","s","t">>)
RouterDelete == Member(<<"r","o","u","t","e","r">>, <<"d","e","l","e","t","e">>)

BackendFiles == <<
    [ file |-> <<"r","o","u","t","e","s","/","u","s","e","r","s",".","j","s">>, parses |-> {"module", "script"}, basePath |-> <<"/","a","p","i","/","u","s","e","r","s">>,
      calls |-> << CallExpr(RouterGet, <<Str(<<"/",":","i","d">>), Ident(<<"r","e","q","u","i","r","e","A","u","t","h">>), Ident(<<"g","e","t","U","s","e","r">>)>>, 5),
                   CallExpr(RouterDelete, <<Str(<<"/",":","i","d">>), Ident(<<"d","e","l","e","t","e","U","s","e","r">>)>>, 6) >> ],
    [ file |-> <<"r","o","u","t","e","s","/","b","r","o","k","e","n",".","j","s">>, parses |-> {}, basePath |-> <<"/","a","p","i","/","b","r","o","k","e","n">>,
      calls |-> << CallExpr(RouterGet, <<Str(<<"/","b","r","o","k","e","n">>), Ident(<<"h","a","n","d","l","e","r">>)>>, 3) >> ],
    [ file |-> <<"r","o","u","t","e","s","/","a","u","t","h",".","j","s">>, parses |-> {"module", "script"}, basePath |-> <<"/","a","p","i","/","a","u","t","h">>,
      calls |-> << CallExpr(RouterPost, <<Str(<<"/","l","o","g","i","n">>), Member(<<"a","u","t","h","C","o","n","t","r","o","l","l","e","r">>, <<"l","o","g","i","n">>)>>, 3) >> ],
    [ file |-> <<"r","o","u","t","e","s","/","a","d","m","i","n",".","j","s">>, parses |-> {"module", "script"}, basePath |-> <<"/","a","p","i","/","a","d","m","i","n","/">>,
      calls |-> << CallExpr(Member(<<"a","p","p">>, <<"g","e","t">>), <<Str(<<"/","h","e","a","l","t","h">>), ArrowFunction>>, 4) >> ],
    [ file |-> <<"r","o","u","t","e","s","/","o","r","d","e","r","s",".","j","s">>, parses |-> {"module", "script"}, basePath |-> <<"/","a","p","i">>,
      calls |-> << CallExpr(RouterPost, <<Str(<<"/","o","r","d","e","r","s">>), Ident(<<"r","e","q","u","i","r","e","A","u","t","h">>), Ident(<<"c","r","e","a","t","e","O","r","d","e","r">>)>>, 7),
                   CallExpr(RouterGet, <<Str(<<"/","i","t","e","m","s","/">>), Array(<<Ident(<<"c","a","c","h","e">>)>>), Ident(<<"l","i","s","t","I","t","e","m","s">>)>>, 8),
                   CallExpr(Member(<<"e","x","p","r","e","s","s">>, <<"R","o","u","t","e","r">>), <<>>, 2) >> ],
    [ file |-> <<"r","o","u","t","e","s","/","l","e","g","a","c","y",".","j","s">>, parses |-> {"script"}, basePath |-> <<"/","a","p","i","/","u","s","e","r","s">>,
      calls |-> << CallExpr(RouterGet, <<Str(<<"/",":","i","d">>), Call(Ident(<<"v","a","l","i","d","a","t","e">>)), Ident(<<"g","e","t","U","s","e","r","L","e","g","a","c","y">>)>>, 9),
                   CallExpr(RouterGet, <<Ident(<<"l","e","g","a","c","y","P","a","t","h">>), Ident(<<"h","a","n","d","l","e","r">>)>>, 10),
                   CallExpr(Member(<<"c","a","c","h","e">>, <<"g","e","t">>), <<Str(<<"/","x">>)>>, 11) >> ] >>

AuthorizationHeaders == Object(<<Prop(<<"h","e","a","d","e","r","s">>, Object(<<Prop(<<"A","u","t","h","o","r","i","z","a","t","i","o","n">>, TemplateLiteral(<<<<"B","e","a","r","e","r"," ">>, INTERP>>))>>))>>)
ItemsBody == Object(<<Prop(<<"i","t","e","m","s">>, Ident(<<"i","t","e","m","s">>))>>)

FrontendFiles == <<
    [ file |-> <<"s","r","c","/","s","e","r","v","i","c","e","s","/","u","s","e","r","s",".","j","s">>,
      calls |-> << CallExpr(Member(<<"a","x","i","o","s">>, <<"g","e","t">>), <<Str(<<"/","a","p","i","/","u","s","e","r","s","/","4","2">>)>>, 12),
                   CallExpr(Member(<<"a","x","i","o","s">>, <<"g","e","t">>), <<TemplateLiteral(<<<<"/","a","p","i","/","u","s","e","r","s","/">>, INTERP>>), Ident(<<"u","n","d","e","f","i","n","e","d">>), AuthorizationHeaders>>, 20) >> ],
    [ file |-> <<"s","r","c","/","s","e","r","v","i","c","e","s","/","o","r","d","e","r","s",".","j","s">>,
      calls |-> << CallExpr(Member(<<"a","p","i">>, <<"p","o","s","t">>), <<Str(<<"/","a","p","i","/","o","r","d","e","r","s">>), ItemsBody, AuthorizationHeaders>>, 8) >> ],
    [ file |-> <<"s","r","c","/","p","a","g","e","s","/","i","t","e","m","s",".","j","s">>,
      calls |-> << CallExpr(Ident(<<"f","e","t","c","h">>), <<Str(<<"/","a","p","i","/","i","t","e","m","s">>)>>, 4),
                   CallExpr(Member(<<"a","p","i">>, <<"p","o","s","t">>), <<Str(<<"/","a","p","i","/","o","r","d","e","r","s">>), ItemsBody>>, 15),
                   CallExpr(Ident(<<"f","e","t","c","h">>),
                            <<Str(<<"h","t","t","p","s",":","/","/","h",":","8","/","a","p","i","/","m","i","s","s","i","n","g","?","x","=","1">>),
                              Object(<<Prop(<<"m","e","t","h","o","d">>, Str(<<"p","o","s","t">>)),
                                       Prop(<<"h","e","a","d","e","r","s">>, Ident(<<"h","e","a","d","e","r","s">>)),
                                       Prop(<<"b","o","d","y">>, Call(Member(<<"J","S","O","N">>, <<"s","t","r","i","n","g","i","f","y">>)))>>)>>, 9) >> ],
    [ file |-> <<"s","r","c","/","s","e","r","v","i","c","e","s","/","a","c","c","o","u","n","t",".","j","s">>,
      calls |-> << CallExpr(Member(<<"a","x","i","o","s">>, <<"g","e","t">>), <<Str(<<"/","a","p","i","/","u","s","e","r","s","/",":","i","d">>)>>, 3),
                   CallExpr(Member(<<"a","x","i","o","s">>, <<"d","e","l","e","t","e">>), <<Str(<<"/","a","p","i","/","u","s","e","r","s","/",":","i","d">>), Ident(<<"u","n","d","e","f","i","n","e","d">>),
                            Object(<<Prop(<<"h","e","a","d","e","r","s">>, Object(<<Prop(<<"t","o","k","e","n">>, Ident(<<"t">>))>>))>>)>>, 7),
                   CallExpr(Member(<<"a","x","i","o","s">>, <<"g","e","t">>), <<Str(<<"/","a","p","i","/","u","s","e","r","s","/",":","i","d">>)>>, 11) >> ],
    [ file |-> <<"s","r","c","/","p","a","g","e","s","/","m","i","s","c",".","j","s">>,
      calls |-> << CallExpr(Member(<<"u","s","e","r","S","e","r","v","i","c","e">>, <<"g","e","t","A","l","l">>), <<>>, 2),
                   CallExpr(Ident(<<"r","e","q","u","e","s","t">>), <<Object(<<Prop(<<"u","r","l">>, Str(<<"/","a","p","i","/","i","t","e","m","s">>)),
                                                      Prop(<<"m","e","t","h","o","d">>, Str(<<"G","E","T">>))>>)>>, 5),
                   CallExpr(Member(<<"c","o","n","s","o","l","e">>, <<"l","o","g">>), <<Str(<<"/","a","p","i","/","i","t","e","m","s">>)>>, 6),
                   CallExpr(Member(<<"a","p","i">>, <<"g","e","t">>), <<Ident(<<"u","r","l">>)>>, 7) >> ] >>

(***************************************************************************)
(* AuditBot.run: analyzeProjects (backend, then frontend), then            *)
(* performValidations (endpoints, then security).                          *)
(***************************************************************************)
\* parseCodeSafe returns null when no syntax mode accepts the code
NoAst == [null |-> TRUE]

\* the File node that @babel/parser returns, with the call expressions that
\* a traversal of it visits
File(calls) == [type |-> "File", calls |-> calls]

\* A faulty variant of parseCodeSafe that hands out whatever could be read
\* of a file that no syntax mode accepts.
parseCodeSafeIgnoringErrors(f) == File(f.calls)

\* astUtils.parseCodeSafe: the code is parsed as a module, and when that
\* throws, as a script; f.parses holds the source types under which
\* @babel/parser accepts the code of f, f.calls the call expressions of
\* its syntax tree.
parseCodeSafe(f) ==
    IF "module" \in f.parses THEN File(f.calls)
    ELSE IF "script" \in f.parses THEN File(f.calls)
    ELSE NoAst

\* BackendAnalyzer.analyzeRouteFile: every call expression of the file
RECURSIVE setEndpoints(_, _, _)
setEndpoints(eps, f, calls) ==
    IF calls = <<>> THEN eps
    ELSE LET endpoint == extractEndpointFromCall(calls[1], f.basePath, f.file)
         IN  setEndpoints(IF endpoint = NoEndpoint THEN eps
                          ELSE mapSet(eps, endpointKey(endpoint), endpoint),
                          f, Tail(calls))

\* A faulty variant of analyzeRouteFile that hands out endpoints already
\* marked as used.
analyzeRouteFileMarkingUsed(eps, f) ==
    LET extracted == IF parseCodeSafe(f) = NoAst THEN eps ELSE setEndpoints(eps, f, parseCodeSafe(f).calls)
    IN  [i \in 1..Len(extracted) |-> [extracted[i] EXCEPT !.value.used = TRUE]]

\* BackendAnalyzer.analyzeRouteFile: nothing for a file that does not parse,
\* else every call expression of the file
analyzeRouteFile(eps, f) ==
    LET ast == parseCodeSafe(f)
    IN  IF ast = NoAst THEN eps ELSE setEndpoints(eps, f, ast.calls)

\* FrontendAnalyzer.extractAPICalls: every call expression of the file
RECURSIVE pushCalls(_, _, _)
pushCalls(calls, f, nodes) ==
    IF nodes = <<>> THEN calls
    ELSE LET apiCall == detectAPICall(nodes[1] @@ [file |-> f.file])
             normalizedCall == IF apiCall = NoCall THEN NoCall ELSE normalizeAPICall(apiCall)
             key == callKey(normalizedCall)
         IN  pushCalls(IF normalizedCall = NoCall THEN calls
                       ELSE IF mapHas(calls, key)
                       THEN [calls EXCEPT ![mapIndex(calls, key)].value = Append(@, normalizedCall)]
                       ELSE mapSet(calls, key, <<normalizedCall>>),
                       f, Tail(nodes))

extractAPICalls(calls, f) == pushCalls(calls, f, f.calls)

(***************************************************************************)
(* ComponentValidator                                                      *)
(***************************************************************************)
\* s.replace(/a|b/, rep): the leftmost match of the alternatives, tried in
\* order at each position, is replaced once
matchAt(s, i, p) == i + Len(p) - 1 <= Len(s) /\ SubSeq(s, i, i + Len(p) - 1) = p

RECURSIVE replaceFirstFrom(_, _, _, _)
replaceFirstFrom(s, alternatives, rep, i) ==
    IF i > Len(s) THEN s
    ELSE LET hits == SelectSeq(alternatives, LAMBDA p : matchAt(s, i, p))
         IN  IF hits # <<>>
             THEN SubSeq(s, 1, i - 1) \o rep \o SubSeq(s, i + Len(hits[1]), Len(s))
             ELSE replaceFirstFrom(s, alternatives, rep, i + 1)

replaceFirst(s, alternatives, rep) == replaceFirstFrom(s, alternatives, rep, 1)

\* s.replace(/^p/, '') and s.replace(/p$/, '')
stripPrefix(s, p) == IF startsWith(s, p) THEN SubSeq(s, Len(p) + 1, Len(s)) ELSE s
stripSuffix(s, p) == IF endsWith(s, p) THEN SubSeq(s, 1, Len(s) - Len(p)) ELSE s

\* the local function normalize of areComponentsSimilar
normalize(name) ==
    LET a == stripSuffix(toLowerCase(name), <<"c","o","m","p","o","n","e","n","t">>)
        b == stripPrefix(a, <<"u","i">>)
        c == stripPrefix(b, <<"d","s">>)
        d == replaceFirst(c, <<<<"b","u","t","t","o","n">>, <<"b","t","n">>>>, <<"b","u","t","t","o","n">>)
        e == replaceFirst(d, <<<<"i","n","p","u","t">>, <<"f","i","e","l","d">>>>, <<"i","n","p","u","t">>)
        f == replaceFirst(e, <<<<"m","o","d","a","l">>, <<"d","i","a","l","o","g">>>>, <<"m","o","d","a","l">>)
    IN  replaceFirst(f, <<<<"c","a","r","d">>, <<"p","a","n","e","l">>>>, <<"c","a","r","d">>)

min3(a, b, c) == IF a <= b /\ a <= c THEN a ELSE IF b <= c THEN b ELSE c

\* one row of the matrix of levenshteinDistance: row[j + 1] is matrix[i][j]
RECURSIVE fillRow(_, _, _, _, _)
fillRow(previous, str1, ch, row, j) ==
    IF j > Len(str1) THEN row
    ELSE fillRow(previous, str1, ch,
                 Append(row, IF ch = str1[j] THEN previous[j]
                             ELSE min3(previous[j] + 1, row[j] + 1, previous[j + 1] + 1)),
                 j + 1)

\* the rows for the characters of str2 from position i on; the last row
RECURSIVE fillMatrix(_, _, _, _)
fillMatrix(previous, str1, str2, i) ==
    IF i > Len(str2) THEN previous
    ELSE fillMatrix(fillRow(previous, str1, str2[i], <<i>>, 1), str1, str2, i + 1)

levenshteinDistance(str1, str2) ==
    fillMatrix([j \in 1..(Len(str1) + 1) |-> j - 1], str1, str2, 1)[Len(str1) + 1]

\* calculateSimilarity(str1, str2) > 0.8, in integers:
\* (longer.length - distance) / longer.length > 8/10
similarityAboveThreshold(str1, str2) ==
    LET longer == IF Len(str1) > Len(str2) THEN str1 ELSE str2
        shorter == IF Len(str1) > Len(str2) THEN str2 ELSE str1
    IN  IF Len(longer) = 0 THEN TRUE
        ELSE 10 * (Len(longer) - levenshteinDistance(longer, shorter)) > 8 * Len(longer)

areComponentsSimilar(name1, name2) ==
    LET norm1 == normalize(name1)
        norm2 == normalize(name2)
    IN  \/ norm1 = norm2
        \/ includes(norm1, norm2) \/ includes(norm2, norm1)
        \/ similarityAboveThreshold(norm1, norm2)

\* /@.*x/.test(source) and /x/.test(source)
atThen(source, x) ==
    \E i \in 1..Len(source) : source[i] = "@" /\ includes(SubSeq(source, i + 1, Len(source)), x)

isDesignSystemImport(source) ==
    \/ atThen(source, <<"d","e","s","i","g","n","-","s","y","s","t","e","m">>)
    \/ atThen(source, <<"u","i">>)
    \/ atThen(source, <<"c","o","m","p","o","n","e","n","t","s">>)
    \/ includes(source, <<"d","e","s","i","g","n","-","s","y","s","t","e","m">>)
    \/ includes(source, <<"u","i","-","k","i","t">>)
    \/ includes(source, <<"c","o","m","p","o","n","e","n","t","-","l","i","b","r","a","r","y">>)
    \/ includes(source, <<".",".","/","d","e","s","i","g","n","-","s","y","s","t","e","m">>)
    \/ includes(source, <<".",".","/","c","o","m","p","o","n","e","n","t","s">>)

\* the import that extractImportsFromFrontend records for every component
SimulatedImport ==
    [ source |-> <<"@","d","e","s","i","g","n","-","s","y","s","t","e","m","/","c","o","m","p","o","n","e","n","t","s">>,
      specifiers |-> << <<"B","u","t","t","o","n">>, <<"I","n","p","u","t">> >>,
      isDefault |-> FALSE ]

\* extractImportsFromFrontend: Map file -> imports, one import per component
RECURSIVE extractImportsFromFrontend(_, _)
extractImportsFromFrontend(components, imports) ==
    IF components = <<>> THEN imports
    ELSE LET file == components[1].file
             held == IF mapHas(imports, file) THEN imports[mapIndex(imports, file)].value ELSE <<>>
         IN  extractImportsFromFrontend(Tail(components),
                                        mapSet(imports, file, Append(held, SimulatedImport)))

\* component.used = true; component.usedIn.push(file), for the names held
RECURSIVE markSpecifiers(_, _, _)
markSpecifiers(ds, names, file) ==
    IF names = <<>> THEN ds
    ELSE LET hit == { i \in 1..Len(ds) : ds[i].name = names[1] }
             marked == [i \in 1..Len(ds) |->
                           IF i \in hit
                           THEN [ds[i] EXCEPT !.used = TRUE, !.usedIn = Append(@, file)]
                           ELSE ds[i]]
         IN  markSpecifiers(marked, Tail(names), file)

RECURSIVE markImports(_, _, _)
markImports(ds, imps, file) ==
    IF imps = <<>> THEN ds
    ELSE markImports(IF isDesignSystemImport(imps[1].source)
                     THEN markSpecifiers(ds, imps[1].specifiers, file)
                     ELSE ds,
                     Tail(imps), file)

RECURSIVE markFiles(_, _)
markFiles(ds, imports) ==
    IF imports = <<>> THEN ds
    ELSE markFiles(markImports(ds, imports[1].value, imports[1].key), Tail(imports))

ComponentIssue(type, severity) ==
    [ type |-> type, severity |-> severity, component |-> <<>>, dsComponent |-> <<>>,
      frontend |-> <<>>, designSystem |-> <<>>, file |-> <<>>, line |-> 0 ]

\* detectIncorrectUsage: the issues it pushes
RECURSIVE detectIncorrectUsage(_, _)
detectIncorrectUsage(ds, components) ==
    IF components = <<>> THEN <<>>
    ELSE LET component == components[1]
             componentName == toLowerCase(component.name)
             similar == SelectSeq(ds, LAMBDA d : areComponentsSimilar(componentName, toLowerCase(d.name)))
             named == IF similar = <<>> THEN <<>>
                      ELSE SelectSeq(ds, LAMBDA d : toLowerCase(d.name) = toLowerCase(similar[1].name))
         IN  (IF named # <<>> /\ ~named[1].used
              THEN << [ComponentIssue("DUPLICATE_COMPONENT", "MEDIUM")
                          EXCEPT !.frontend = component.file, !.designSystem = named[1].file,
                                 !.component = component.name, !.dsComponent = named[1].name] >>
              ELSE <<>>)
             \o detectIncorrectUsage(ds, Tail(components))

\* findUnusedComponents: the issues it pushes
RECURSIVE findUnusedComponents(_, _)
findUnusedComponents(r, ds) ==
    IF ds = <<>> THEN <<>>
    ELSE (IF ~ds[1].used
          THEN << [ComponentIssue("UNUSED_DS_COMPONENT", severityOf(r, "unusedComponent", "LOW"))
                      EXCEPT !.component = ds[1].name, !.designSystem = ds[1].file,
                             !.line = ds[1].line] >>
          ELSE <<>>)
         \o findUnusedComponents(r, Tail(ds))

\* validateBasicPropsUsage: one issue per entry of usedIn when a prop is required
validateBasicPropsUsage(dsComponent) ==
    LET requiredProps == SelectSeq(dsComponent.props,
                                   LAMBDA prop : ~prop.hasDefault /\ prop.name # "children")
    IN  IF requiredProps = <<>> THEN <<>>
        ELSE [i \in 1..Len(dsComponent.usedIn) |->
                 [ComponentIssue("VERIFY_PROPS_USAGE", "LOW")
                     EXCEPT !.component = dsComponent.name, !.file = dsComponent.usedIn[i]]]

RECURSIVE validatePropsConsistency(_)
validatePropsConsistency(ds) ==
    IF ds = <<>> THEN <<>>
    ELSE (IF ds[1].used /\ Len(ds[1].props) > 0 THEN validateBasicPropsUsage(ds[1]) ELSE <<>>)
         \o validatePropsConsistency(Tail(ds))

\* validateComponentUsage: the components after marking, and the issues pushed
validateComponentUsage(ds, components) ==
    LET marked == markFiles(ds, extractImportsFromFrontend(components, <<>>))
    IN  [components |-> marked, issues |-> detectIncorrectUsage(marked, components)]

\* ComponentValidator.validate
validateComponents(r, ds, components) ==
    LET usage == validateComponentUsage(ds, components)
    IN  [ components |-> usage.components,
          issues |-> usage.issues
                     \o findUnusedComponents(r, usage.components)
                     \o detectIncorrectUsage(usage.components, components)
                     \o validatePropsConsistency(usage.components) ]

\* a component as DesignSystemAnalyzer registers it
DesignSystemComponent(name, line, props) ==
    [ name |-> name, file |-> <<"c","o","m","p","o","n","e","n","t","s","/">> \o name \o <<".","j","s","x">>, line |-> line,
      props |-> props, used |-> FALSE, usedIn |-> <<>> ]

\* a component as FrontendAnalyzer.extractComponents registers it
FrontendComponent(name, file) == [ name |-> name, file |-> file ]

DesignSystemPool == <<
    DesignSystemComponent(<<"B","u","t","t","o","n">>, 3, << [name |-> "label", hasDefault |-> FALSE] >>),
    DesignSystemComponent(<<"I","n","p","u","t">>, 5, <<>>),
    DesignSystemComponent(<<"C","a","r","d">>, 4, << [name |-> "children", hasDefault |-> FALSE] >>),
    DesignSystemComponent(<<"T","o","o","l","t","i","p">>, 7, << [name |-> "text", hasDefault |-> TRUE] >>) >>

FrontendPool == <<
    FrontendComponent(<<"B","t","n">>, <<"s","r","c","/","c","o","m","p","o","n","e","n","t","s","/","B","t","n",".","j","s","x">>),
    FrontendComponent(<<"B","u","t","t","o","n">>, <<"s","r","c","/","c","o","m","p","o","n","e","n","t","s","/","C","o","n","t","r","o","l","s",".","j","s","x">>),
    FrontendComponent(<<"P","a","n","e","l">>, <<"s","r","c","/","c","o","m","p","o","n","e","n","t","s","/","C","o","n","t","r","o","l","s",".","j","s","x">>),
    FrontendComponent(<<"T","o","o","l","t","y","p">>, <<"s","r","c","/","p","a","g","e","s","/","H","e","l","p",".","j","s","x">>),
    FrontendComponent(<<"T","o","o","l","k","i","t">>, <<"s","r","c","/","p","a","g","e","s","/","H","e","l","p",".","j","s","x">>) >>

\* the members of a pool at the chosen positions, in the pool's order
RECURSIVE chosenFrom(_, _, _)
chosenFrom(pool, positions, i) ==
    IF i > Len(pool) THEN <<>>
    ELSE (IF i \in positions THEN <<pool[i]>> ELSE <<>>) \o chosenFrom(pool, positions, i + 1)

ComponentIdle ==
    /\ componentPhase = "idle"
    /\ designSystemComponents = <<>>
    /\ frontendComponents = <<>>
    /\ componentIssues = <<>>

(***************************************************************************)
(* CacheManager: a memory tier (node-cache) in front of one JSON file per  *)
(* key.  Time is counted in ticks; every duration of the source (ttl,      *)
(* maxAge, the memory tier's TTL) is a number of ticks.                    *)
(***************************************************************************)
\* the cap of the memory tier's TTL (300 s in the source), in ticks
stdTTL == 2

\* constructor options { ttl, maxAge }
Configs == { [ttl |-> 1, maxAge |-> 3], [ttl |-> 4, maxAge |-> 1] }

\* the customTTL argument of set: null (0) or a number of ticks
CustomTTLs == {0, 2}

CacheKeys == { <<"a","b">>, <<"b","a">> }
Patterns == { <<"a">>, <<"b","a">> }

\* cached values: an object whose mtime field is a string, and one whose
\* mtime field is a Date (as cacheFileAnalysis stores it)
CacheValues ==
    { [filePath |-> "a.js", mtime |-> [type |-> "string", iso |-> "t1"]],
      [filePath |-> "a.js", mtime |-> [type |-> "Date", iso |-> "t1"]] }

\* JSON.parse(JSON.stringify(v)): a Date comes back as its ISO string
parseStringify(v) == [v EXCEPT !.mtime.type = "string"]

Miss == [kind |-> "miss"]
NoMemory == [kind |-> "none"]
Absent == [kind |-> "absent"]
NoWrite == [key |-> <<>>]
NoSet == [at |-> -1]
Invalidated == [at |-> -2]
NoOp == [op |-> "none", key |-> <<>>, result |-> Miss, at |-> 0]

min(a, b) == IF a < b THEN a ELSE b
max(a, b) == IF a > b THEN a ELSE b

\* path.join(cacheDir, category, key + '.json'): the file's name
fileName(key) == key \o <<".","j","s","o","n">>

\* NodeCache.get: the value when the key is held and has not expired
memoryGet(key) ==
    IF memoryCache[key].kind = "value" /\ now <= memoryCache[key].t
    THEN memoryCache[key].v
    ELSE Miss

\* NodeCache.set(key, value, ttl)
memorySet(mem, key, value, ttl) ==
    [mem EXCEPT ![key] = [kind |-> "value", v |-> value, t |-> now + ttl]]

\* CacheManager.get(key): the result, and the tiers after the call
get(key) ==
    LET memResult == memoryGet(key)
        dropped == IF memoryCache[key].kind = "value" /\ memResult = Miss
                   THEN [memoryCache EXCEPT ![key] = NoMemory]
                   ELSE memoryCache
        file == disk[key]
    IN  IF memResult # Miss
        THEN [result |-> memResult, memoryCache |-> memoryCache, disk |-> disk]
        ELSE IF file = Absent
        THEN [result |-> Miss, memoryCache |-> dropped, disk |-> disk]
        ELSE IF now - file.mtime > cfg.maxAge
        THEN [result |-> Miss, memoryCache |-> dropped, disk |-> [disk EXCEPT ![key] = Absent]]
        ELSE IF file.kind = "partial"
        THEN \* JSON.parse throws: the catch block returns null
             [result |-> Miss, memoryCache |-> dropped, disk |-> disk]
        ELSE IF now > file.expires
        THEN [result |-> Miss, memoryCache |-> dropped, disk |-> [disk EXCEPT ![key] = Absent]]
        ELSE [result |-> file.data,
              memoryCache |-> memorySet(dropped, key, file.data, stdTTL),
              disk |-> disk]

\* the object that set serializes into the file
cachedEntry(data, ttl) ==
    [kind |-> "entry", data |-> parseStringify(data), created |-> now,
     expires |-> now + ttl, mtime |-> now]

\* CacheManager.invalidatePattern: unlink every file whose name starts with it
invalidatePattern(pattern) ==
    [k \in CacheKeys |-> IF disk[k] # Absent /\ startsWith(fileName(k), pattern)
                         THEN Absent ELSE disk[k]]

\* CacheManager.clearExpired: whether the sweep unlinks the file
sweeps(file) ==
    \/ now - file.mtime > cfg.maxAge
    \/ file.kind = "partial"
    \/ now > file.expires

clearExpired ==
    [k \in CacheKeys |-> IF disk[k] # Absent /\ sweeps(disk[k]) THEN Absent ELSE disk[k]]

CacheIdle ==
    /\ now = 0
    /\ cfg = [ttl |-> 1, maxAge |-> 3]
    /\ memoryCache = [k \in CacheKeys |-> NoMemory]
    /\ disk = [k \in CacheKeys |-> Absent]
    /\ writing = NoWrite
    /\ lastSet = [k \in CacheKeys |-> NoSet]
    /\ lastOp = NoOp

SourceIdle ==
    /\ folders = [components |-> <<>>, pages |-> <<>>, services |-> <<>>]
    /\ tree = {}
    /\ files = <<>>

RunIdle ==
    /\ startedBy = "none"
    /\ runOptions = [noBackend |-> FALSE, noFrontend |-> FALSE, noDesignSystem |-> FALSE]
    /\ exists = [backend |-> TRUE, frontend |-> TRUE, designSystem |-> TRUE]
    /\ runPhase = "idle"
    /\ results = [backend |-> FALSE, frontend |-> FALSE, designSystem |-> FALSE, issues |-> <<>>]
    /\ validated = {}

BaseIdle ==
    /\ content = <<>>
    /\ detected = <<>>

NormIdle ==
    /\ node = Undefined
    /\ nb = <<>>
    /\ nf = <<>>

Init ==
    /\ phase = "backend"
    /\ rules \in {DefaultRules, CustomRules}
    /\ endpoints = <<>>
    /\ apiCalls = <<>>
    /\ issues = <<>>
    /\ routeCursor = 0
    /\ callCursor = 0
    /\ nRoutes = 0
    /\ nCalls = 0
    /\ NormIdle
    /\ CacheIdle
    /\ ComponentIdle
    /\ SourceIdle
    /\ RunIdle
    /\ BaseIdle

\* analyzeRoutes visits the next route file
AnalyzeRouteFile(i) ==
    /\ phase = "backend"
    /\ i > routeCursor
    /\ nRoutes < MaxRoutes
    /\ endpoints' = analyzeRouteFile(endpoints, BackendFiles[i])
    /\ routeCursor' = i
    /\ nRoutes' = nRoutes + 1
    /\ UNCHANGED <<phase, rules, apiCalls, issues, callCursor, nCalls>>
    /\ UNCHANGED <<normVars, cacheVars, componentVars, sourceVars, runVars, baseVars>>

\* BackendAnalyzer.analyze returns results.backend
FinishBackend ==
    /\ phase = "backend"
    /\ phase' = "frontend"
    /\ UNCHANGED <<rules, endpoints, apiCalls, issues, routeCursor, callCursor, nRoutes, nCalls>>
    /\ UNCHANGED <<normVars, cacheVars, componentVars, sourceVars, runVars, baseVars>>

\* analyzeSourceFiles visits the next source file; the frontend project of
\* this specification configures no folders, so 'src' is its only search
\* path (overlapping search paths are the subject of SpecSources)
AnalyzeSourceFile(i) ==
    /\ phase = "frontend"
    /\ i > callCursor
    /\ nCalls < MaxCalls
    /\ apiCalls' = extractAPICalls(apiCalls, FrontendFiles[i])
    /\ callCursor' = i
    /\ nCalls' = nCalls + 1
    /\ UNCHANGED <<phase, rules, endpoints, issues, routeCursor, nRoutes>>
    /\ UNCHANGED <<normVars, cacheVars, componentVars, sourceVars, runVars, baseVars>>

\* FrontendAnalyzer.analyze returns results.frontend
FinishFrontend ==
    /\ phase = "frontend"
    /\ phase' = "validateEndpoints"
    /\ UNCHANGED <<rules, endpoints, apiCalls, issues, routeCursor, callCursor, nRoutes, nCalls>>
    /\ UNCHANGED <<normVars, cacheVars, componentVars, sourceVars, runVars, baseVars>>

\* performValidations: validators.endpoint.validate
EndpointValidate ==
    /\ phase = "validateEndpoints"
    /\ LET result == validateEndpoints(rules, endpoints, apiCalls)
       IN  /\ endpoints' = result.endpoints
           /\ issues' = issues \o result.issues
    /\ phase' = "validateSecurity"
    /\ UNCHANGED <<rules, apiCalls, routeCursor, callCursor, nRoutes, nCalls>>
    /\ UNCHANGED <<normVars, cacheVars, componentVars, sourceVars, runVars, baseVars>>

\* performValidations: validators.security.validate
SecurityValidate ==
    /\ phase = "validateSecurity"
    /\ issues' = issues \o validateSecurity(rules, endpoints, apiCalls)
    /\ phase' = "done"
    /\ UNCHANGED <<rules, endpoints, apiCalls, routeCursor, callCursor, nRoutes, nCalls>>
    /\ UNCHANGED <<normVars, cacheVars, componentVars, sourceVars, runVars, baseVars>>

Next ==
    \/ \E i \in 1..Len(BackendFiles) : AnalyzeRouteFile(i)
    \/ FinishBackend
    \/ \E i \in 1..Len(FrontendFiles) : AnalyzeSourceFile(i)
    \/ FinishFrontend
    \/ EndpointValidate
    \/ SecurityValidate

Spec == Init /\ [][Next]_vars

(***************************************************************************)
(* Normalizer harness: a URL argument is read with extractStringValue and  *)
(* both normalizers are applied to it, repeatedly.                         *)
(***************************************************************************)
PipeIdle ==
    /\ phase = "idle"
    /\ rules = DefaultRules
    /\ endpoints = <<>>
    /\ apiCalls = <<>>
    /\ issues = <<>>
    /\ routeCursor = 0
    /\ callCursor = 0
    /\ nRoutes = 0
    /\ nCalls = 0

\* the URL arguments of the documented examples
UsersSlash == <<"/","a","p","i","/","u","s","e","r","s","/">>
Users123 == <<"/","a","p","i","/","u","s","e","r","s","/","1","2","3">>
UsersParam == <<"/","a","p","i","/","u","s","e","r","s","/",":","p","a","r","a","m">>
UsersPath == <<"/","a","p","i","/","u","s","e","r","s">>
UsersAbsolute == <<"h","t","t","p","s",":","/","/","h",":","8","/","a","p","i","/","/","u","s","e","r","s","/","?","q">>

ExampleNodes == {
    TemplateLiteral(<<UsersSlash, INTERP>>),
    StringLiteral(<<Users123>>),
    StringLiteral(<<UsersSlash>>),
    StringLiteral(<<UsersAbsolute>>) }

NormInit ==
    /\ PipeIdle
    /\ CacheIdle
    /\ ComponentIdle
    /\ SourceIdle
    /\ RunIdle
    /\ BaseIdle
    /\ node \in {StringLiteral(ps) : ps \in PieceSeqs} \cup {TemplateLiteral(ps) : ps \in PieceSeqs}
                 \cup ExampleNodes \cup {Identifier}
    /\ nb = <<>>
    /\ nf = <<>>

last(outs, first) == IF outs = <<>> THEN first ELSE outs[Len(outs)]

ApplyNormalizePath ==
    /\ extractStringValue(node) # NULL
    /\ Len(nb) < MaxApply
    /\ nb' = Append(nb, normalizePath(last(nb, extractStringValue(node))))
    /\ UNCHANGED <<node, nf>>
    /\ UNCHANGED <<pipeVars, cacheVars, componentVars, sourceVars, runVars, baseVars>>

ApplyCleanEndpoint ==
    /\ extractStringValue(node) # NULL
    /\ Len(nf) < MaxApply
    /\ nf' = Append(nf, cleanEndpoint(last(nf, extractStringValue(node))))
    /\ UNCHANGED <<node, nb>>
    /\ UNCHANGED <<pipeVars, cacheVars, componentVars, sourceVars, runVars, baseVars>>

NormNext == ApplyNormalizePath \/ ApplyCleanEndpoint

SpecNorm == NormInit /\ [][NormNext]_vars

(***************************************************************************)
(* The cache as a state machine: one process using a CacheManager over a   *)
(* cache directory that outlives the process.                              *)
(***************************************************************************)
CacheInit ==
    /\ PipeIdle
    /\ NormIdle
    /\ ComponentIdle
    /\ SourceIdle
    /\ RunIdle
    /\ BaseIdle
    /\ now = 0
    /\ cfg \in Configs
    /\ memoryCache = [k \in CacheKeys |-> NoMemory]
    /\ disk = [k \in CacheKeys |-> Absent]
    /\ writing = NoWrite
    /\ lastSet = [k \in CacheKeys |-> NoSet]
    /\ lastOp = NoOp

\* the clock advances
Tick ==
    /\ writing = NoWrite
    /\ now < MaxTime
    /\ now' = now + 1
    /\ UNCHANGED <<cfg, memoryCache, disk, writing, lastSet, lastOp>>
    /\ UNCHANGED <<pipeVars, normVars, componentVars, sourceVars, runVars, baseVars>>

\* CacheManager.get(key)
Get(key) ==
    /\ writing = NoWrite
    /\ LET r == get(key)
       IN  /\ memoryCache' = r.memoryCache
           /\ disk' = r.disk
           /\ lastOp' = [op |-> "get", key |-> key, result |-> r.result, at |-> now]
    /\ UNCHANGED <<now, cfg, writing, lastSet>>
    /\ UNCHANGED <<pipeVars, normVars, componentVars, sourceVars, runVars, baseVars>>

\* CacheManager.set(key, data, category, customTTL) up to the point where
\* fs.writeFileSync has opened the file at its final path and is writing it
SetBegin(key, data, customTTL) ==
    /\ writing = NoWrite
    /\ LET ttl == IF customTTL # 0 THEN customTTL ELSE cfg.ttl
       IN  /\ memoryCache' = memorySet(memoryCache, key, data, min(ttl, stdTTL))
           /\ disk' = [disk EXCEPT ![key] = [kind |-> "partial", mtime |-> now]]
           /\ writing' = [key |-> key, cached |-> cachedEntry(data, ttl), data |-> data, ttl |-> ttl]
    /\ UNCHANGED <<now, cfg, lastSet, lastOp>>
    /\ UNCHANGED <<pipeVars, normVars, componentVars, sourceVars, runVars, baseVars>>

\* fs.writeFileSync completes and set returns
SetEnd ==
    /\ writing # NoWrite
    /\ disk' = [disk EXCEPT ![writing.key] = writing.cached]
    /\ lastSet' = [lastSet EXCEPT ![writing.key] = [value |-> writing.data, ttl |-> writing.ttl, at |-> now]]
    /\ lastOp' = [op |-> "set", key |-> writing.key, result |-> Miss, at |-> now]
    /\ writing' = NoWrite
    /\ UNCHANGED <<now, cfg, memoryCache>>
    /\ UNCHANGED <<pipeVars, normVars, componentVars, sourceVars, runVars, baseVars>>

\* the process is killed while fs.writeFileSync is writing; the next
\* process starts with an empty memory tier over the same directory
Interrupt ==
    /\ writing # NoWrite
    /\ writing' = NoWrite
    /\ memoryCache' = [k \in CacheKeys |-> NoMemory]
    /\ lastSet' = [lastSet EXCEPT ![writing.key] = NoSet]
    /\ lastOp' = [op |-> "interrupt", key |-> writing.key, result |-> Miss, at |-> now]
    /\ UNCHANGED <<now, cfg, disk>>
    /\ UNCHANGED <<pipeVars, normVars, componentVars, sourceVars, runVars, baseVars>>

\* the process ends and the next one starts over the same directory
Restart ==
    /\ writing = NoWrite
    /\ memoryCache # [k \in CacheKeys |-> NoMemory]
    /\ memoryCache' = [k \in CacheKeys |-> NoMemory]
    /\ lastOp' = [op |-> "restart", key |-> <<>>, result |-> Miss, at |-> now]
    /\ UNCHANGED <<now, cfg, disk, writing, lastSet>>
    /\ UNCHANGED <<pipeVars, normVars, componentVars, sourceVars, runVars, baseVars>>

\* CacheManager.invalidatePattern(pattern)
InvalidatePattern(pattern) ==
    /\ writing = NoWrite
    /\ disk' = invalidatePattern(pattern)
    /\ lastSet' = [k \in CacheKeys |-> IF startsWith(k, pattern) THEN Invalidated ELSE lastSet[k]]
    /\ lastOp' = [op |-> "invalidatePattern", key |-> pattern, result |-> Miss, at |-> now]
    /\ UNCHANGED <<now, cfg, memoryCache, writing>>
    /\ UNCHANGED <<pipeVars, normVars, componentVars, sourceVars, runVars, baseVars>>

\* CacheManager.clearExpired()
ClearExpired ==
    /\ writing = NoWrite
    /\ disk' = clearExpired
    /\ lastOp' = [op |-> "clearExpired", key |-> <<>>, result |-> Miss, at |-> now]
    /\ UNCHANGED <<now, cfg, memoryCache, writing, lastSet>>
    /\ UNCHANGED <<pipeVars, normVars, componentVars, sourceVars, runVars, baseVars>>

\* CacheManager.clear()
Clear ==
    /\ writing = NoWrite
    /\ disk' = [k \in CacheKeys |-> Absent]
    /\ memoryCache' = [k \in CacheKeys |-> NoMemory]
    /\ lastSet' = [k \in CacheKeys |-> NoSet]
    /\ lastOp' = [op |-> "clear", key |-> <<>>, result |-> Miss, at |-> now]
    /\ UNCHANGED <<now, cfg, writing>>
    /\ UNCHANGED <<pipeVars, normVars, componentVars, sourceVars, runVars, baseVars>>

CacheNext ==
    \/ Tick
    \/ \E key \in CacheKeys : Get(key)
    \/ \E key \in CacheKeys, data \in CacheValues, customTTL \in CustomTTLs : SetBegin(key, data, customTTL)
    \/ SetEnd
    \/ Interrupt
    \/ Restart
    \/ \E pattern \in Patterns : InvalidatePattern(pattern)
    \/ ClearExpired
    \/ Clear

SpecCache == CacheInit /\ [][CacheNext]_vars

(***************************************************************************)
(* The component validation of performValidations as a state machine.      *)
(***************************************************************************)
ComponentInit ==
    /\ PipeIdle
    /\ NormIdle
    /\ CacheIdle
    /\ SourceIdle
    /\ RunIdle
    /\ BaseIdle
    /\ componentPhase = "ready"
    /\ designSystemComponents \in
          { chosenFrom(DesignSystemPool, S, 1) : S \in SUBSET (1..Len(DesignSystemPool)) }
    /\ frontendComponents \in
          { chosenFrom(FrontendPool, S, 1) : S \in SUBSET (1..Len(FrontendPool)) }
    /\ componentIssues = <<>>

\* performValidations: validators.component.validate
ValidateComponents ==
    /\ componentPhase = "ready"
    /\ LET result == validateComponents(rules, designSystemComponents, frontendComponents)
       IN  /\ designSystemComponents' = result.components
           /\ componentIssues' = componentIssues \o result.issues
    /\ componentPhase' = "done"
    /\ UNCHANGED frontendComponents
    /\ UNCHANGED <<pipeVars, normVars, cacheVars, sourceVars, runVars, baseVars>>

ComponentNext == ValidateComponents

SpecComponents == ComponentInit /\ [][ComponentNext]_vars

(***************************************************************************)
(* EndpointValidator.validate handed an endpoint that carries a body       *)
(* schema: POST /api/orders as the backend extractor records it, with      *)
(* expectedBody filled in, and one call site of it whose body varies.      *)
(***************************************************************************)
BodyFields == << <<"i","t","e","m","s">>, <<"n","o","t","e">> >>

\* the schemas over BodyFields: each field absent, optional or required
RECURSIVE schemasOver(_)
schemasOver(fields) ==
    IF fields = <<>> THEN { <<>> }
    ELSE LET rest == schemasOver(Tail(fields))
         IN  rest \cup { <<[key |-> fields[1], value |-> [required |-> req]]>> \o s :
                           req \in BOOLEAN, s \in rest }

\* the object literals over BodyFields and the absent data argument
BodyArguments ==
    { Undefined,
      Object(<<>>),
      Object(<<Prop(BodyFields[1], Ident(BodyFields[1]))>>),
      Object(<<Prop(BodyFields[2], Str(<<"x">>))>>),
      Object(<<Prop(BodyFields[1], Ident(BodyFields[1])), Prop(BodyFields[2], Str(<<"x">>))>>) }

OrdersEndpoint ==
    extractEndpointFromCall(
        CallExpr(RouterPost, <<Str(<<"/","o","r","d","e","r","s">>), Ident(<<"r","e","q","u","i","r","e","A","u","t","h">>), Ident(<<"c","r","e","a","t","e","O","r","d","e","r">>)>>, 7),
        <<"/","a","p","i">>, <<"r","o","u","t","e","s","/","o","r","d","e","r","s",".","j","s">>)

OrdersCall(dataArg, configArg) ==
    normalizeAPICall(detectAPICall(
        CallExpr(Member(<<"a","p","i">>, <<"p","o","s","t">>), <<Str(<<"/","a","p","i","/","o","r","d","e","r","s">>), dataArg, configArg>>, 8)
            @@ [file |-> <<"s","r","c","/","s","e","r","v","i","c","e","s","/","o","r","d","e","r","s",".","j","s">>]))

BodyInit ==
    /\ phase = "validateEndpoints"
    /\ rules \in {DefaultRules, CustomRules}
    /\ \E schema \in schemasOver(BodyFields) :
          endpoints = mapSet(<<>>, endpointKey(OrdersEndpoint),
                             [OrdersEndpoint EXCEPT !.expectedBody = schema])
    /\ \E dataArg \in BodyArguments, configArg \in {Undefined, AuthorizationHeaders} :
          apiCalls = mapSet(<<>>, callKey(OrdersCall(dataArg, configArg)),
                            <<OrdersCall(dataArg, configArg)>>)
    /\ issues = <<>>
    /\ routeCursor = 0
    /\ callCursor = 0
    /\ nRoutes = 0
    /\ nCalls = 0
    /\ NormIdle
    /\ CacheIdle
    /\ ComponentIdle
    /\ SourceIdle
    /\ RunIdle
    /\ BaseIdle

BodyNext ==
    \/ EndpointValidate
    \/ SecurityValidate

SpecBody == BodyInit /\ [][BodyNext]_vars

(***************************************************************************)
(* FrontendAnalyzer.analyzeSourceFiles over a project tree: the search     *)
(* paths are visited in order and every file found under a search path is  *)
(* analysed; the validators then run on the call sites collected.          *)
(***************************************************************************)
\* projects.frontend.folders of the default configuration, and a project
\* configuration without folders
DefaultFolders ==
    [ components |-> <<"s","r","c","/","c","o","m","p","o","n","e","n","t","s">>, pages |-> <<"s","r","c","/","p","a","g","e","s">>, services |-> <<"s","r","c","/","s","e","r","v","i","c","e","s">> ]
NoFolders == [ components |-> <<>>, pages |-> <<>>, services |-> <<>> ]

\* [folders.components, folders.pages, folders.services, 'src', ''].filter(Boolean)
searchPaths(f) ==
    SelectSeq(<< f.components, f.pages, f.services, <<"s","r","c">>, <<>> >>, LAMBDA p : p # <<>>)

\* the indices in FrontendFiles of the files of the tree from index i on
\* that lie under dir, in directory order
RECURSIVE findFilesFrom(_, _, _)
findFilesFrom(t, dir, i) ==
    IF i > Len(FrontendFiles) THEN <<>>
    ELSE (IF i \in t /\ startsWith(FrontendFiles[i].file, dir \o <<"/">>) THEN <<i>> ELSE <<>>)
         \o findFilesFrom(t, dir, i + 1)

findFiles(t, dir) == findFilesFrom(t, dir, 1)

\* the files found under each search path in turn
RECURSIVE filesOfSearchPaths(_, _)
filesOfSearchPaths(t, paths) ==
    IF paths = <<>> THEN <<>>
    ELSE findFiles(t, paths[1]) \o filesOfSearchPaths(t, Tail(paths))

\* the files analyzeSourceFiles hands to analyzeSourceFile, in order
analyzeSourceFiles(f, t) == filesOfSearchPaths(t, searchPaths(f))

RECURSIVE analyzeRoutes(_, _)
analyzeRoutes(eps, i) ==
    IF i > Len(BackendFiles) THEN eps
    ELSE analyzeRoutes(analyzeRouteFile(eps, BackendFiles[i]), i + 1)

SourcesInit ==
    /\ phase = "frontend"
    /\ rules \in {DefaultRules, CustomRules}
    /\ endpoints = analyzeRoutes(<<>>, 1)
    /\ apiCalls = <<>>
    /\ issues = <<>>
    /\ routeCursor = 0
    /\ callCursor = 0
    /\ nRoutes = 0
    /\ nCalls = 0
    /\ folders \in {DefaultFolders, NoFolders}
    /\ tree \in SUBSET (1..Len(FrontendFiles))
    /\ files = <<>>
    /\ NormIdle
    /\ CacheIdle
    /\ ComponentIdle
    /\ RunIdle
    /\ BaseIdle

\* one turn of the inner loop of analyzeSourceFiles: analyzeSourceFile(file)
\* and this.files.push(file)
AnalyzeNextSourceFile ==
    /\ phase = "frontend"
    /\ Len(files) < Len(analyzeSourceFiles(folders, tree))
    /\ LET file == FrontendFiles[analyzeSourceFiles(folders, tree)[Len(files) + 1]]
       IN  /\ apiCalls' = extractAPICalls(apiCalls, file)
           /\ files' = Append(files, file.file)
    /\ UNCHANGED <<phase, rules, endpoints, issues, routeCursor, callCursor, nRoutes, nCalls>>
    /\ UNCHANGED <<folders, tree>>
    /\ UNCHANGED <<normVars, cacheVars, componentVars, runVars, baseVars>>

\* the loops of analyzeSourceFiles are over; FrontendAnalyzer.analyze returns
FinishSources ==
    /\ phase = "frontend"
    /\ Len(files) = Len(analyzeSourceFiles(folders, tree))
    /\ phase' = "validateEndpoints"
    /\ UNCHANGED <<rules, endpoints, apiCalls, issues, routeCursor, callCursor, nRoutes, nCalls>>
    /\ UNCHANGED sourceVars
    /\ UNCHANGED <<normVars, cacheVars, componentVars, runVars, baseVars>>

SourcesNext ==
    \/ AnalyzeNextSourceFile
    \/ FinishSources
    \/ EndpointValidate
    \/ SecurityValidate

SpecSources == SourcesInit /\ [][SourcesNext]_vars

(***************************************************************************)
(* A run over the three configured projects, started from the command      *)
(* line (main: verifyProjectPaths, new AuditBot, bot.run) or by a caller   *)
(* of AuditBot.run().  An analysis is recorded as having produced its      *)
(* result set or not.                                                      *)
(***************************************************************************)
Projects == <<"backend", "frontend", "designSystem">>

\* the option that switches a project off
disabled(o, p) ==
    IF p = "backend" THEN o.noBackend
    ELSE IF p = "frontend" THEN o.noFrontend
    ELSE o.noDesignSystem

\* the projects verifyProjectPaths collects and the AuditBot constructor
\* builds analyzers for; every project has a configured path
analyzers(o) == SelectSeq(Projects, LAMBDA p : ~disabled(o, p))

\* verifyProjectPaths: the collected projects whose path does not exist
missingPaths(o, e) == SelectSeq(analyzers(o), LAMBDA p : ~e[p])

analysisFailed(p) ==
    IF p = "backend" THEN "BACKEND_ANALYSIS_FAILED"
    ELSE IF p = "frontend" THEN "FRONTEND_ANALYSIS_FAILED"
    ELSE "DESIGN_SYSTEM_ANALYSIS_FAILED"

\* analyzeProjects: each analyzer in turn; analyze() throws when the root
\* does not exist, the error is caught and recorded as an issue, and the
\* next analyzer runs
RECURSIVE analyzeProjects(_, _, _)
analyzeProjects(r, ps, e) ==
    IF ps = <<>> THEN r
    ELSE analyzeProjects(IF e[ps[1]] THEN [r EXCEPT ![ps[1]] = TRUE]
                         ELSE [r EXCEPT !.issues = Append(@, analysisFailed(ps[1]))],
                         Tail(ps), e)

\* performValidations: the validators whose inputs are there
performValidations(r) ==
    (IF r.backend /\ r.frontend THEN {"endpoint", "security"} ELSE {})
        \cup (IF r.designSystem /\ r.frontend THEN {"component"} ELSE {})

RunInit ==
    /\ startedBy \in {"cli", "run"}
    /\ runOptions \in [noBackend : BOOLEAN, noFrontend : BOOLEAN, noDesignSystem : BOOLEAN]
    /\ exists \in [backend : BOOLEAN, frontend : BOOLEAN, designSystem : BOOLEAN]
    /\ runPhase = IF startedBy = "cli" THEN "main" ELSE "run"
    /\ results = [backend |-> FALSE, frontend |-> FALSE, designSystem |-> FALSE, issues |-> <<>>]
    /\ validated = {}
    /\ PipeIdle
    /\ NormIdle
    /\ CacheIdle
    /\ ComponentIdle
    /\ SourceIdle
    /\ BaseIdle

\* main: verifyProjectPaths throws and main exits, or the bot is built and run
VerifyProjectPaths ==
    /\ runPhase = "main"
    /\ runPhase' = IF missingPaths(runOptions, exists) # <<>> THEN "exited" ELSE "run"
    /\ UNCHANGED <<startedBy, runOptions, exists, results, validated>>
    /\ UNCHANGED <<pipeVars, normVars, cacheVars, componentVars, sourceVars, baseVars>>

AnalyzeProjects ==
    /\ runPhase = "run"
    /\ results' = analyzeProjects(results, analyzers(runOptions), exists)
    /\ runPhase' = "analysed"
    /\ UNCHANGED <<startedBy, runOptions, exists, validated>>
    /\ UNCHANGED <<pipeVars, normVars, cacheVars, componentVars, sourceVars, baseVars>>

PerformValidations ==
    /\ runPhase = "analysed"
    /\ validated' = performValidations(results)
    /\ runPhase' = "validated"
    /\ UNCHANGED <<startedBy, runOptions, exists, results>>
    /\ UNCHANGED <<pipeVars, normVars, cacheVars, componentVars, sourceVars, baseVars>>

\* generateSummary, and run returns this.results
ReturnResults ==
    /\ runPhase = "validated"
    /\ runPhase' = "returned"
    /\ UNCHANGED <<startedBy, runOptions, exists, results, validated>>
    /\ UNCHANGED <<pipeVars, normVars, cacheVars, componentVars, sourceVars, baseVars>>

RunNext ==
    \/ VerifyProjectPaths
    \/ AnalyzeProjects
    \/ PerformValidations
    \/ ReturnResults

SpecRun == RunInit /\ [][RunNext]_vars

(***************************************************************************)
(* BackendAnalyzer.detectBasePath.  The content of a route file is         *)
(* recorded as what the patterns of detectBasePath find in it, in textual  *)
(* order: the .use('/prefix', ...) statements, the route declarations, the *)
(* capture of the @route comment and of the base-path constants (an empty  *)
(* capture stands for no match), with the relative path of the file.       *)
(***************************************************************************)
\* 1-based position of the last occurrence of character c, 0 if none
lastIndexOf(s, c) ==
    IF \E j \in 1..Len(s) : s[j] = c
    THEN CHOOSE j \in 1..Len(s) : s[j] = c /\ \A k \in (j + 1)..Len(s) : s[k] # c
    ELSE 0

\* the inner loop of findCommonPrefix:
\* while (prefix && !path.startsWith(prefix)) prefix = prefix.substring(0, prefix.lastIndexOf('/'))
RECURSIVE shortenTo(_, _)
shortenTo(prefix, path) ==
    IF prefix = <<>> \/ startsWith(path, prefix) THEN prefix
    ELSE shortenTo(SubSeq(prefix, 1, lastIndexOf(prefix, "/") - 1), path)

RECURSIVE shortenToAll(_, _)
shortenToAll(prefix, paths) ==
    IF paths = <<>> THEN prefix
    ELSE shortenToAll(shortenTo(prefix, paths[1]), Tail(paths))

\* BackendAnalyzer.findCommonPrefix
findCommonPrefix(paths) ==
    IF Len(paths) = 0 THEN <<>>
    ELSE IF Len(paths) = 1
    THEN LET segments == SelectSeq(split(paths[1], "/"), LAMBDA x : x # <<>>)
         IN  IF Len(segments) > 1
             THEN <<"/">> \o join(SubSeq(segments, 1, Len(segments) - 1), <<"/">>)
             ELSE <<>>
    ELSE LET prefix == shortenToAll(paths[1], Tail(paths))
         IN  IF prefix # <<>> /\ prefix # <<"/">> /\ ~endsWith(prefix, <<"/">>) /\ lastIndexOf(prefix, "/") > 1
             THEN SubSeq(prefix, 1, lastIndexOf(prefix, "/") - 1)
             ELSE prefix

\* the first match of the first of the three use patterns (app.use,
\* router.use, express().use) that matches
usePrefix(uses) ==
    LET on(object) == SelectSeq(uses, LAMBDA u : u.object = object)
    IN  IF on(<<"a","p","p">>) # <<>> THEN on(<<"a","p","p">>)[1].path
        ELSE IF on(<<"r","o","u","t","e","r">>) # <<>> THEN on(<<"r","o","u","t","e","r">>)[1].path
        ELSE IF on(<<"e","x","p","r","e","s","s","(",")">>) # <<>> THEN on(<<"e","x","p","r","e","s","s","(",")">>)[1].path
        ELSE <<>>

\* the paths of the matches of /router\.(get|post|put|patch|delete)\s*\(\s*['"]([^'"]+)['"]/g
\* that start with a slash
localPaths(routes) ==
    LET matches == SelectSeq(routes, LAMBDA r :
                       /\ r.object = <<"r","o","u","t","e","r">>
                       /\ r.method \in { <<"g","e","t">>, <<"p","o","s","t">>, <<"p","u","t">>, <<"p","a","t","c","h">>, <<"d","e","l","e","t","e">> })
        paths == [i \in 1..Len(matches) |-> matches[i].path]
    IN  SelectSeq(paths, LAMBDA p : startsWith(p, <<"/">>))

\* path.basename(p), path.dirname(p) and path.basename(p, path.extname(p))
\* for a relative path without trailing slash
basename(p) == SubSeq(p, lastIndexOf(p, "/") + 1, Len(p))
dirname(p) == IF lastIndexOf(p, "/") = 0 THEN <<".">> ELSE SubSeq(p, 1, lastIndexOf(p, "/") - 1)
withoutExtname(name) ==
    IF lastIndexOf(name, ".") > 1 THEN SubSeq(name, 1, lastIndexOf(name, ".") - 1) ELSE name

detectBasePath(c, relativePath) ==
    LET paths == localPaths(c.routes)
        commonPrefix == findCommonPrefix(paths)
        nameOfFile == withoutExtname(basename(relativePath))
        dirName == basename(dirname(relativePath))
    IN  IF usePrefix(c.uses) # <<>> THEN usePrefix(c.uses)
        ELSE IF paths # <<>> /\ commonPrefix # <<>> /\ commonPrefix # <<"/">> THEN commonPrefix
        ELSE IF c.routeComment # <<>> THEN c.routeComment
        ELSE IF c.basePathConst # <<>> THEN c.basePathConst
        ELSE IF c.apiPrefixConst # <<>> THEN c.apiPrefixConst
        ELSE IF c.baseUrl # <<>> THEN c.baseUrl
        ELSE IF nameOfFile \notin { <<"i","n","d","e","x">>, <<"r","o","u","t","e","s">>, <<"a","p","p">>, <<"s","e","r","v","e","r">> }
        THEN <<"/","a","p","i","/">> \o nameOfFile
        ELSE IF dirName \notin { <<"r","o","u","t","e","s">>, <<".">>, <<"s","r","c">> }
        THEN <<"/","a","p","i","/">> \o dirName
        ELSE IF includes(relativePath, <<"r","o","u","t","e","s","/">>) THEN <<"/","a","p","i">>
        ELSE <<>>

MaxDeclared == 3

Route(object, method, path) == [object |-> object, method |-> method, path |-> path]

\* the route declarations a file is made of
DeclaredRoutes == {
    Route(<<"r","o","u","t","e","r">>, <<"g","e","t">>, <<"/","a","p","i","/","u","s","e","r","s","/","a">>),
    Route(<<"r","o","u","t","e","r">>, <<"p","o","s","t">>, <<"/","a","p","i","/","u","s","e","r","s","/","b">>),
    Route(<<"r","o","u","t","e","r">>, <<"g","e","t">>, <<"/","a","p","i","/","u","s","e","r","l","i","s","t","/","c">>),
    Route(<<"r","o","u","t","e","r">>, <<"d","e","l","e","t","e">>, <<"/","u","s","e","r","s">>),
    Route(<<"r","o","u","t","e","r">>, <<"g","e","t">>, <<"h","e","a","l","t","h">>),
    Route(<<"a","p","p">>, <<"g","e","t">>, <<"/","s","t","a","t","u","s","/","l","i","v","e">>) }

RouteSeqs == UNION { [1..n -> DeclaredRoutes] : n \in 0..MaxDeclared }

NotDetected == <<"<none>">>

BaseInit ==
    /\ \E routes \in RouteSeqs,
          uses \in { <<>>, <<[object |-> <<"r","o","u","t","e","r">>, path |-> <<"/","v","1">>]>> },
          routeComment \in { <<>>, <<"/","a","p","i","/","d","o","c","s">> },
          relativePath \in { <<"r","o","u","t","e","s","/","u","s","e","r","s",".","j","s">>, <<"r","o","u","t","e","s","/","i","n","d","e","x",".","j","s">>, <<"i","n","d","e","x",".","j","s">> } :
          content = [ uses |-> uses, routes |-> routes, routeComment |-> routeComment,
                      basePathConst |-> <<>>, apiPrefixConst |-> <<>>, baseUrl |-> <<>>,
                      relativePath |-> relativePath ]
    /\ detected = NotDetected
    /\ PipeIdle
    /\ NormIdle
    /\ CacheIdle
    /\ ComponentIdle
    /\ SourceIdle
    /\ RunIdle

\* analyzeRouteFile: let basePath = this.detectBasePath(content, relativePath)
DetectBasePath ==
    /\ detected = NotDetected
    /\ detected' = detectBasePath(content, content.relativePath)
    /\ UNCHANGED content
    /\ UNCHANGED <<pipeVars, normVars, cacheVars, componentVars, sourceVars, runVars>>

BaseNext == DetectBasePath

SpecBasePath == BaseInit /\ [][BaseNext]_vars

(***************************************************************************)
(* Claims about reconciliation and the security checks (checked under      *)
(* Spec).                                                                  *)
(***************************************************************************)
\* the call sites extracted so far, each with the key it is filed under
CallSites ==
    UNION { { [key |-> apiCalls[i].key, call |-> apiCalls[i].value[j]] : j \in 1..Len(apiCalls[i].value) }
            : i \in 1..Len(apiCalls) }

EndpointEntries == { endpoints[i] : i \in 1..Len(endpoints) }

\* the key 'METHOD path' of a call site
keyOfCall(call) == call.method \o <<" ">> \o call.endpoint

\* the issues of a type raised for a call site / for an endpoint key
issuesAtCallSite(type, call) ==
    { i \in 1..Len(issues) : /\ issues[i].type = type
                              /\ issues[i].frontend = call.file
                              /\ issues[i].line = call.line }

issuesAtEndpoint(type, key) ==
    { i \in 1..Len(issues) : issues[i].type = type /\ issues[i].endpoint = key }

issuesOfType(type) == { i \in 1..Len(issues) : issues[i].type = type }

configuredSeverity(name, fallback) ==
    IF name \in DOMAIN rules.severity THEN rules.severity[name] ELSE fallback

EndpointsValidated == phase \in {"validateSecurity", "done"}

KeyGetUser == <<"G","E","T"," ","/","a","p","i","/","u","s","e","r","s","/",":","i","d">>
KeyDeleteUser == <<"D","E","L","E","T","E"," ","/","a","p","i","/","u","s","e","r","s","/",":","i","d">>
KeyLogin == <<"P","O","S","T"," ","/","a","p","i","/","a","u","t","h","/","l","o","g","i","n">>
KeyOrders == <<"P","O","S","T"," ","/","a","p","i","/","o","r","d","e","r","s">>
FileUsersService == <<"s","r","c","/","s","e","r","v","i","c","e","s","/","u","s","e","r","s",".","j","s">>
FileOrdersService == <<"s","r","c","/","s","e","r","v","i","c","e","s","/","o","r","d","e","r","s",".","j","s">>

\* C1: EndpointValidator.validate returns exactly one MISSING_BACKEND_ENDPOINT
\* (CRITICAL unless configured) for each call site whose key is not a key of
\* the endpoint map and none for the others; their number is the number of
\* such call sites.
C1_OneMissingEndpointPerUnmatchedCallSite ==
    EndpointsValidated =>
        /\ \A s \in CallSites :
              Cardinality(issuesAtCallSite("MISSING_BACKEND_ENDPOINT", s.call))
                = IF keyOfCall(s.call) \in mapKeys(endpoints) THEN 0 ELSE 1
        /\ Cardinality(issuesOfType("MISSING_BACKEND_ENDPOINT"))
                = Cardinality({ s \in CallSites : keyOfCall(s.call) \notin mapKeys(endpoints) })
        /\ \A i \in issuesOfType("MISSING_BACKEND_ENDPOINT") :
              issues[i].severity = configuredSeverity("missingEndpoint", "CRITICAL")

C1_Witness ==
    /\ EndpointsValidated
    /\ \E s1, s2 \in CallSites :
          /\ s1 # s2
          /\ keyOfCall(s1.call) = keyOfCall(s2.call)
          /\ keyOfCall(s1.call) \notin mapKeys(endpoints)
    /\ \E s \in CallSites : keyOfCall(s.call) \in mapKeys(endpoints)
    /\ Cardinality(issuesOfType("MISSING_BACKEND_ENDPOINT")) >= 2

\* C2: after EndpointValidator.validate an endpoint is used exactly when some
\* call site has its key, and it has one UNUSED_ENDPOINT issue (LOW unless
\* configured) exactly when it is not used.
C2_UsedIffCalledAndOneUnusedIssue ==
    EndpointsValidated =>
        /\ \A e \in EndpointEntries :
              /\ e.value.used <=> \E s \in CallSites : keyOfCall(s.call) = e.key
              /\ Cardinality(issuesAtEndpoint("UNUSED_ENDPOINT", e.key))
                    = IF e.value.used THEN 0 ELSE 1
        /\ \A i \in issuesOfType("UNUSED_ENDPOINT") :
              /\ issues[i].severity = configuredSeverity("unusedEndpoint", "LOW")
              /\ issues[i].endpoint \in mapKeys(endpoints)

C2_Witness ==
    /\ EndpointsValidated
    /\ \E e \in EndpointEntries : e.value.used
    /\ \E e \in EndpointEntries : ~e.value.used /\ issuesAtEndpoint("UNUSED_ENDPOINT", e.key) # {}

\* C3: the route GET /api/users/:id requiring auth and the call
\* axios.get('/api/users/42') (or the same URL with an interpolated last
\* segment) without auth header are reconciled as a match: the endpoint is
\* used, the call site gets MISSING_AUTH_HEADER and no MISSING_BACKEND_ENDPOINT.
C3_ConcreteSegmentMatchesPathParameter ==
    ( /\ phase = "done"
      /\ \E e \in EndpointEntries : e.key = KeyGetUser /\ e.value.requiresAuth )
    => \A s \in CallSites :
          ( /\ s.call.file = FileUsersService
            /\ s.call.method = <<"G","E","T">>
            /\ ~s.call.hasAuth )
          => /\ \E e \in EndpointEntries : e.key = KeyGetUser /\ e.value.used
             /\ issuesAtCallSite("MISSING_AUTH_HEADER", s.call) # {}
             /\ issuesAtCallSite("MISSING_BACKEND_ENDPOINT", s.call) = {}

\* C4: SecurityValidator.validate emits exactly one MISSING_AUTH_HEADER (HIGH
\* unless configured) for every call site without auth header whose key is
\* the key of an endpoint requiring auth, and none for any other call site.
C4_OneMissingAuthHeaderPerUnauthenticatedCall ==
    phase = "done" =>
        /\ \A s \in CallSites :
              Cardinality(issuesAtCallSite("MISSING_AUTH_HEADER", s.call))
                = IF /\ \E e \in EndpointEntries : e.key = keyOfCall(s.call) /\ e.value.requiresAuth
                     /\ ~s.call.hasAuth
                  THEN 1 ELSE 0
        /\ Cardinality(issuesOfType("MISSING_AUTH_HEADER"))
                = Cardinality({ s \in CallSites :
                                  /\ \E e \in EndpointEntries : e.key = keyOfCall(s.call) /\ e.value.requiresAuth
                                  /\ ~s.call.hasAuth })
        /\ \A i \in issuesOfType("MISSING_AUTH_HEADER") :
              issues[i].severity = configuredSeverity("missingAuth", "HIGH")

C4_Witness ==
    /\ phase = "done"
    /\ \E s1, s2 \in CallSites :
          /\ keyOfCall(s1.call) = keyOfCall(s2.call)
          /\ s1.call.hasAuth /\ ~s2.call.hasAuth
          /\ issuesAtCallSite("MISSING_AUTH_HEADER", s1.call) = {}
          /\ issuesAtCallSite("MISSING_AUTH_HEADER", s2.call) # {}
    /\ \E s \in CallSites :
          /\ ~s.call.hasAuth
          /\ \E e \in EndpointEntries : e.key = keyOfCall(s.call) /\ ~e.value.requiresAuth
    /\ \E s \in CallSites : ~s.call.hasAuth /\ keyOfCall(s.call) \notin mapKeys(endpoints)

\* C5: SENSITIVE_ENDPOINT_NO_AUTH is emitted once for exactly the endpoints
\* without auth whose key is sensitive and that are not on the exemption
\* allowlist; POST /api/auth/login and GET /api/admin/health get none.
C5_SensitiveEndpointNoAuthUnlessExempt ==
    phase = "done" =>
        \A e \in EndpointEntries :
            Cardinality(issuesAtEndpoint("SENSITIVE_ENDPOINT_NO_AUTH", e.key))
              = IF /\ ~e.value.requiresAuth
                   /\ isSensitiveEndpoint(rules, e.key)
                   /\ ~isExemptFromAuth(e.key)
                THEN 1 ELSE 0

\* C6: SENSITIVE_METHOD_NO_AUTH (HIGH) is emitted once for exactly the
\* endpoints whose method is in the configured sensitive-method list (default
\* POST, PUT, PATCH, DELETE), that do not require auth and whose key matches
\* no exemption pattern, whether or not SENSITIVE_ENDPOINT_NO_AUTH was emitted.
C6_SensitiveMethodNoAuthUnlessExempt ==
    phase = "done" =>
        /\ \A e \in EndpointEntries :
              Cardinality(issuesAtEndpoint("SENSITIVE_METHOD_NO_AUTH", e.key))
                = IF /\ contains(IF rules.security.defined THEN rules.security.sensitiveMethods
                                 ELSE << <<"P","O","S","T">>, <<"P","U","T">>, <<"P","A","T","C","H">>,
                                         <<"D","E","L","E","T","E">> >>,
                                 e.value.method)
                     /\ ~e.value.requiresAuth
                     /\ ~isExemptFromAuth(e.key)
                  THEN 1 ELSE 0
        /\ \A i \in issuesOfType("SENSITIVE_METHOD_NO_AUTH") : issues[i].severity = "HIGH"
        /\ (issuesAtEndpoint("SENSITIVE_METHOD_NO_AUTH", KeyLogin) = {})
        /\ (KeyDeleteUser \in mapKeys(endpoints)
               => issuesAtEndpoint("SENSITIVE_METHOD_NO_AUTH", KeyDeleteUser) # {})

C6_Witness ==
    /\ phase = "done"
    /\ rules = CustomRules
    /\ \E e \in EndpointEntries :
          /\ issuesAtEndpoint("SENSITIVE_METHOD_NO_AUTH", e.key) # {}
          /\ issuesAtEndpoint("SENSITIVE_ENDPOINT_NO_AUTH", e.key) # {}
    /\ \E e \in EndpointEntries :
          /\ issuesAtEndpoint("SENSITIVE_METHOD_NO_AUTH", e.key) # {}
          /\ issuesAtEndpoint("SENSITIVE_ENDPOINT_NO_AUTH", e.key) = {}
    /\ \E e \in EndpointEntries :
          /\ issuesAtEndpoint("SENSITIVE_METHOD_NO_AUTH", e.key) = {}
          /\ issuesAtEndpoint("SENSITIVE_ENDPOINT_NO_AUTH", e.key) # {}

\* C7: POST /api/orders declared with requireAuth and the call
\* api.post('/api/orders', {items}, config) carrying an Authorization header:
\* the endpoint is used and no issue is emitted for this pair.
C7_AuthenticatedOrderCallHasNoIssue ==
    ( /\ phase = "done"
      /\ \E e \in EndpointEntries : e.key = KeyOrders /\ e.value.requiresAuth
      /\ \E s \in CallSites : s.call.file = FileOrdersService /\ s.key = KeyOrders /\ s.call.hasAuth )
    => /\ \E e \in EndpointEntries : e.key = KeyOrders /\ e.value.used
       /\ \A i \in 1..Len(issues) :
             ~(issues[i].endpoint = KeyOrders /\ issues[i].frontend = FileOrdersService)


\* C11: when a route declaration has the key of an earlier one, the later one
\* is the one used for matching and the earlier one is not lost: every
\* declaration held under a key before a route file is analysed is still
\* held under that key afterwards.
C11_DuplicateDeclarationsRetained ==
    [][ \A i \in 1..Len(endpoints) :
          \E j \in 1..Len(endpoints') :
              /\ endpoints'[j].key = endpoints[i].key
              /\ endpoints'[j].value.file = endpoints[i].value.file
              /\ endpoints'[j].value.line = endpoints[i].value.line ]_vars

\* C12: the used flag of an endpoint is false when the route extractor
\* creates the endpoint, and is changed afterwards only by
\* EndpointValidator.validate and only from false to true; the extractors
\* and SecurityValidator.validate leave it as it is.
C12_UsedWrittenOnlyByReconciliation ==
    [][ /\ \A j \in 1..Len(endpoints') :
             ~mapHas(endpoints, endpoints'[j].key) => ~endpoints'[j].value.used
        /\ \A i \in 1..Len(endpoints) :
             \A j \in 1..Len(endpoints') :
                 ( /\ endpoints'[j].key = endpoints[i].key
                   /\ endpoints'[j].value.used # endpoints[i].value.used )
                 => /\ phase = "validateEndpoints"
                    /\ ~endpoints[i].value.used
                    /\ endpoints'[j].value.used ]_vars

C12_Witness ==
    /\ phase = "done"
    /\ \E e \in EndpointEntries :
          /\ e.value.used
          /\ Cardinality({ s \in CallSites : s.key = e.key }) >= 2
    /\ \E e \in EndpointEntries : ~e.value.used

FileMisc == <<"s","r","c","/","p","a","g","e","s","/","m","i","s","c",".","j","s">>

\* C24: a bare request(config) call with a literal url and method is
\* recognised as call shape 4 and yields one CallSite carrying that method
\* and URL: once src/pages/misc.js has been analysed, its request call on
\* line 5 is a call site with method GET and endpoint /api/items.
C24_RequestConfigYieldsCallSite ==
    callCursor = 5 =>
        \E s \in CallSites : /\ s.call.file = FileMisc
                             /\ s.call.line = 5
                             /\ s.call.method = <<"G","E","T">>
                             /\ s.call.endpoint = <<"/","a","p","i","/","i","t","e","m","s">>

UpperCaseMethods == { <<"G","E","T">>, <<"P","O","S","T">>, <<"P","U","T">>, <<"P","A","T","C","H">>, <<"D","E","L","E","T","E">> }

\* C25: the method of a CallSite produced by the generic service heuristic
\* is always an upper-case HTTP method of the lexicon, and a method name
\* that contains get (userService.getAll) gives GET.
C25_ServiceMethodIsUpperCase ==
    \A s \in CallSites :
        s.call.type = "service" =>
            /\ s.call.method \in UpperCaseMethods
            /\ includes(toLowerCase(SubSeq(s.call.endpoint, Len(s.call.endpoint) - 5, Len(s.call.endpoint))), <<"g","e","t">>)
                   => s.call.method = <<"G","E","T">>

\* the matched pairs: a call site and the endpoint filed under its key
MatchedPairs ==
    { p \in CallSites \X EndpointEntries : p[2].key = p[1].key }

extraBodyFieldIssues(key, file, field) ==
    { i \in issuesOfType("EXTRA_BODY_FIELD") :
        /\ issues[i].endpoint = key
        /\ issues[i].frontend = file
        /\ issues[i].field = field }

C22_UnparsableFileIsSkipped ==
    [][ ( /\ phase = "backend"
          /\ routeCursor' # routeCursor
          /\ BackendFiles[routeCursor'].parses = {} )
        => ( endpoints' = endpoints /\ phase' = "backend" ) ]_vars

FileBroken == <<"r","o","u","t","e","s","/","b","r","o","k","e","n",".","j","s">>

\* routes/users.js, the unparsable routes/broken.js and routes/auth.js have
\* been visited in this order: the endpoints of the first and of the third
\* are there, none is of the second
C22_Witness ==
    /\ routeCursor = 3
    /\ nRoutes = 3
    /\ BackendFiles[2].file = FileBroken
    /\ BackendFiles[2].parses = {}
    /\ KeyGetUser \in mapKeys(endpoints)
    /\ KeyLogin \in mapKeys(endpoints)
    /\ \A e \in EndpointEntries : e.value.file # FileBroken

(***************************************************************************)
(* Claims about the body check (checked under SpecBody).                   *)
(***************************************************************************)
missingBodyFieldIssues(key, file, field) ==
    { i \in issuesOfType("MISSING_BODY_FIELD") :
        /\ issues[i].endpoint = key
        /\ issues[i].frontend = file
        /\ issues[i].field = field }

CallSitePositions ==
    UNION { { <<i, j>> : j \in 1..Len(apiCalls[i].value) } : i \in 1..Len(apiCalls) }

\* C28: during one FrontendAnalyzer.analyze run each source file is analysed
\* at most once, so each call expression contributes at most one CallSite
\* and a single unmatched call produces a single MISSING_BACKEND_ENDPOINT,
\* also when the components, pages and services folders lie under src.
C28_EachSourceFileAnalysedOnce ==
    /\ \A a, b \in 1..Len(files) : files[a] = files[b] => a = b
    /\ \A q, r \in CallSitePositions :
          ( /\ apiCalls[q[1]].value[q[2]].file = apiCalls[r[1]].value[r[2]].file
            /\ apiCalls[q[1]].value[q[2]].line = apiCalls[r[1]].value[r[2]].line ) => q = r
    /\ \A i, j \in issuesOfType("MISSING_BACKEND_ENDPOINT") :
          ( issues[i].frontend = issues[j].frontend /\ issues[i].line = issues[j].line ) => i = j

(***************************************************************************)
(* Claims about a run over missing roots (checked under SpecRun).          *)
(***************************************************************************)
\* C21: if the root directory of a project that takes part in the run does
\* not exist, the run aborts before any analysis: no analyzer produces its
\* records, no validator runs and no result set is returned, whether the
\* run was started through the CLI or through AuditBot.run().
C21_MissingRootAbortsBeforeAnalysis ==
    missingPaths(runOptions, exists) # <<>> =>
        /\ ~results.backend /\ ~results.frontend /\ ~results.designSystem
        /\ validated = {}
        /\ runPhase # "returned"

(***************************************************************************)
(* Claims about the inferred base path (checked under SpecBasePath).       *)
(***************************************************************************)
\* the segments of a path
segmentsOf(p) == SelectSeq(split(p, "/"), LAMBDA x : x # <<>>)

\* the longest sequence of whole segments every path starts with
RECURSIVE commonSegments(_, _)
commonSegments(segs, paths) ==
    IF segs = <<>> THEN <<>>
    ELSE IF \A i \in 1..Len(paths) :
              /\ Len(segmentsOf(paths[i])) >= Len(segs)
              /\ SubSeq(segmentsOf(paths[i]), 1, Len(segs)) = segs
    THEN segs
    ELSE commonSegments(SubSeq(segs, 1, Len(segs) - 1), paths)

longestCommonDirectoryPrefix(paths) ==
    LET segs == commonSegments(segmentsOf(paths[1]), paths)
    IN  IF segs = <<>> THEN <<>> ELSE <<"/">> \o join(segs, <<"/">>)

\* C26: for a route file without a .use('/prefix', ...) statement that
\* declares two or more local route paths, the inferred base path is their
\* longest common prefix of whole segments ('/api/users' for '/api/users/a'
\* and '/api/users/b'); with a single route it is the path less its last
\* segment; the later strategies are consulted only when this yields
\* nothing.
C26_BasePathIsLongestCommonSegmentPrefix ==
    ( detected # NotDetected /\ usePrefix(content.uses) = <<>> ) =>
        LET paths == localPaths(content.routes)
        IN  /\ ( /\ Len(paths) >= 2
                  /\ longestCommonDirectoryPrefix(paths) # <<>>
                  /\ \A i \in 1..Len(paths) : paths[i] # longestCommonDirectoryPrefix(paths) )
                  => detected = longestCommonDirectoryPrefix(paths)
            /\ ( Len(paths) = 1 /\ Len(segmentsOf(paths[1])) > 1 )
                  => detected = <<"/">> \o join(SubSeq(segmentsOf(paths[1]), 1, Len(segmentsOf(paths[1])) - 1), <<"/">>)

(***************************************************************************)
(* Claims about the cache (checked under SpecCache).                       *)
(***************************************************************************)
\* the key has a completed set that no later set, clear or invalidation replaced
hasSet(key) == lastSet[key].at >= 0

\* C13: after set(k, v, category, ttl), a get(k) issued before ttl has
\* elapsed, with no set, clear or invalidation of k in between, returns v,
\* whichever tier serves it.
C13_GetBeforeTtlReturnsValue ==
    ( /\ lastOp.op = "get"
      /\ hasSet(lastOp.key)
      /\ lastOp.at - lastSet[lastOp.key].at < lastSet[lastOp.key].ttl )
    => lastOp.result = lastSet[lastOp.key].value

\* C14: a get(k) issued once more than maxAge has elapsed since k was last
\* written returns a miss, and the entry's file does not exist after it.
C14_GetAfterMaxAgeMissesAndFileGone ==
    ( /\ lastOp.op = "get"
      /\ hasSet(lastOp.key)
      /\ lastOp.at - lastSet[lastOp.key].at > cfg.maxAge )
    => /\ lastOp.result = Miss
       /\ disk[lastOp.key] = Absent

\* C15: get and clearExpired remove an entry by expiry only once
\* now > max(expires, created + maxAge).
C15_ExpiryOnlyAfterBothBounds ==
    [][ \A k \in CacheKeys :
          ( /\ disk[k].kind = "entry"
            /\ disk'[k] = Absent
            /\ lastOp'.op \in {"get", "clearExpired"} )
          => now > max(disk[k].expires, disk[k].created + cfg.maxAge) ]_vars

\* C16: a get(k) that finds a file it cannot deserialize returns a miss and
\* deletes the file, which no longer exists when get returns.
C16_CorruptFileDeletedByGet ==
    [][ \A k \in CacheKeys :
          ( /\ disk[k].kind = "partial"
            /\ writing = NoWrite
            /\ now' = now
            /\ lastOp'.op = "get"
            /\ lastOp'.key = k )
          => /\ lastOp'.result = Miss
             /\ disk'[k] = Absent ]_vars

\* C17: at every instant the file at an entry's final path holds a complete
\* entry or does not exist; it is never a partially written one.
C17_NoPartiallyWrittenFile ==
    \A k \in CacheKeys : disk[k].kind \in {"absent", "entry"}

\* C18: after invalidatePattern(p), get(k) for a key k that starts with p
\* returns a miss until k is set again.
C18_InvalidatedKeyMisses ==
    ( /\ lastOp.op = "get"
      /\ lastSet[lastOp.key] = Invalidated )
    => lastOp.result = Miss

\* C27: a get(k) issued after the expiry time of the entry (the time of its
\* last set plus its ttl) returns null unless k has been set again, also
\* when an earlier get served the entry from disk.
C27_GetNeverReturnsExpiredEntry ==
    ( /\ lastOp.op = "get"
      /\ hasSet(lastOp.key)
      /\ lastOp.at > lastSet[lastOp.key].at + lastSet[lastOp.key].ttl )
    => lastOp.result = Miss

(***************************************************************************)
(* Claims about the component validation (checked under SpecComponents).   *)
(***************************************************************************)
componentIssuesOf(type) == { i \in 1..Len(componentIssues) : componentIssues[i].type = type }

\* C19: ComponentValidator.validate emits DUPLICATE_COMPONENT (MEDIUM) for a
\* frontend component whose name matches a design-system component that is
\* not in use, as for the frontend component Btn against an unused
\* design-system Button, and emits none naming a design-system component
\* that is marked used.
C19_DuplicateOfUnusedDesignSystemComponent ==
    componentPhase = "done" =>
        /\ ( /\ Len(frontendComponents) = 1
             /\ frontendComponents[1].name = <<"B","t","n">>
             /\ \E i \in 1..Len(designSystemComponents) :
                    designSystemComponents[i].name = <<"B","u","t","t","o","n">> )
           => \E i \in componentIssuesOf("DUPLICATE_COMPONENT") :
                  /\ componentIssues[i].component = <<"B","t","n">>
                  /\ componentIssues[i].dsComponent = <<"B","u","t","t","o","n">>
                  /\ componentIssues[i].severity = "MEDIUM"
        /\ \A i \in componentIssuesOf("DUPLICATE_COMPONENT") :
              \A j \in 1..Len(designSystemComponents) :
                  designSystemComponents[j].name = componentIssues[i].dsComponent
                      => ~designSystemComponents[j].used

\* C20: UNUSED_DS_COMPONENT is emitted exactly for the design-system
\* components that are still unused and are not named as the twin of a
\* DUPLICATE_COMPONENT issue of the same validate call.
C20_UnusedOnlyWhenNotClaimedByDuplicate ==
    componentPhase = "done" =>
        \A j \in 1..Len(designSystemComponents) :
            LET d == designSystemComponents[j]
                claimed == \E i \in componentIssuesOf("DUPLICATE_COMPONENT") :
                               componentIssues[i].dsComponent = d.name
                reported == { i \in componentIssuesOf("UNUSED_DS_COMPONENT") :
                                  componentIssues[i].component = d.name }
            IN  Cardinality(reported) = IF ~d.used /\ ~claimed THEN 1 ELSE 0

\* C30: one call to ComponentValidator.validate never leaves two
\* DUPLICATE_COMPONENT issues naming the same frontend component and the
\* same design-system component in the issue list.
C30_AtMostOneDuplicateIssuePerPair ==
    componentPhase = "done" =>
        \A i, j \in componentIssuesOf("DUPLICATE_COMPONENT") :
            ( /\ componentIssues[i].component = componentIssues[j].component
              /\ componentIssues[i].frontend = componentIssues[j].frontend
              /\ componentIssues[i].dsComponent = componentIssues[j].dsComponent )
            => i = j

(***************************************************************************)
(* Claims about the normalizers (checked under SpecNorm).                  *)
(***************************************************************************)
urlRaw == extractStringValue(node)

\* C8: the URL with an interpolation in its last segment and the URL with a
\* concrete value in that segment both normalize to "/api/users/:param".
C8_InterpolationAndConcreteValueSameKey ==
    (node \in {TemplateLiteral(<<UsersSlash, INTERP>>), StringLiteral(<<Users123>>)} /\ Len(nf) >= 1)
        => nf[1] = UsersParam

\* C9: each normalizer returns a string, and applying it again to its own
\* result returns that result unchanged.
C9_NormalizeTotalIdempotent ==
    /\ \A i \in 1..Len(nb) : nb[i] # NULL /\ nb[i] = nb[1]
    /\ \A i \in 1..Len(nf) : nf[i] # NULL /\ nf[i] = nf[1]

C9_Witness ==
    /\ Len(nb) >= 2 /\ Len(nf) >= 2
    /\ nb[1] # urlRaw /\ nf[1] # urlRaw
    /\ nb[1] # nf[1]

\* C10: the backend normalizer and the frontend normalizer return the same
\* result for every raw string.
C10_SameNormalization ==
    (urlRaw # <<>> /\ Len(nb) >= 1 /\ Len(nf) >= 1) => nb[1] = nf[1]

====
